---------------------------- MODULE Spec2Model ----------------------------
(***************************************************************************)
(* A model of the rule-driven HTML sanitizer: the comparator evaluator,    *)
(* the value parsers, the error handlers with their fallback chain, the    *)
(* attribute sanitizer, the tree walker and the top-level driver.          *)
(*                                                                         *)
(* Strings that the code inspects character by character (attribute        *)
(* values, tokens, record keys) are sequences of one-character strings.    *)
(* Names that the code only compares (tag names, attribute names, error    *)
(* handling modes) are TLA+ strings.  An optional number or string is a    *)
(* set with at most one element: {} is undefined.                          *)
(***************************************************************************)
EXTENDS Integers, Sequences, FiniteSets, TLC

VARIABLES tree, options, stack, pc, result, thrown, calls, input, pass, first

vars == <<tree, options, stack, pc, result, thrown, calls, input, pass, first>>

-----------------------------------------------------------------------------
(* Bounds of the model. *)

\* the number of nodes of an input fragment
MaxNodes == 4

\* the number of nodes of an input fragment whose nodes are of every kind
MaxMixed == 3

\* the number of entries (tokens or pairs) of a generated attribute value
MaxEntries == 3

\* the largest limit handed to a handler that is called on its own
MaxLimit == 2

-----------------------------------------------------------------------------
(* JavaScript values. *)

Range(s) == {s[i] : i \in 1..Len(s)}

\* "x && ..." on an optional number: undefined and 0 are both falsy
Truthy(opt) == opt # {} /\ opt # {0}

\* "if (s)" on an optional string: undefined and "" are both falsy
TruthyStr(opt) == opt # {} /\ opt # {<<>>}

Val(opt) == CHOOSE v \in opt : TRUE

Min(a, b) == IF a < b THEN a ELSE b

Max(a, b) == IF a > b THEN a ELSE b

\* Array.prototype.slice(0, n) and String.prototype.slice(0, n), n >= 0
Slice(s, n) == SubSeq(s, 1, Min(n, Len(s)))

RECURSIVE TrimLeft(_)
TrimLeft(s) == IF s # <<>> /\ Head(s) = " " THEN TrimLeft(Tail(s)) ELSE s

RECURSIVE TrimRight(_)
TrimRight(s) ==
    IF s # <<>> /\ s[Len(s)] = " " THEN TrimRight(SubSeq(s, 1, Len(s) - 1)) ELSE s

\* String.prototype.trim
Trim(s) == TrimRight(TrimLeft(s))

\* String.prototype.split(sep) for a one-character separator
RECURSIVE SplitFrom(_, _, _, _, _)
SplitFrom(s, sep, i, cur, acc) ==
    IF i > Len(s) THEN Append(acc, cur)
    ELSE IF s[i] = sep THEN SplitFrom(s, sep, i + 1, <<>>, Append(acc, cur))
    ELSE SplitFrom(s, sep, i + 1, Append(cur, s[i]), acc)

Split(s, sep) == SplitFrom(s, sep, 1, <<>>, <<>>)

\* Array.prototype.join(sep)
RECURSIVE Join(_, _)
Join(parts, sep) ==
    IF parts = <<>> THEN <<>>
    ELSE IF Len(parts) = 1 THEN parts[1]
    ELSE parts[1] \o <<sep>> \o Join(Tail(parts), sep)

\* arr.map((s) => s.trim()).filter(Boolean)
RECURSIVE TrimAndFilter(_)
TrimAndFilter(parts) ==
    IF parts = <<>> THEN <<>>
    ELSE LET t == Trim(Head(parts))
         IN  (IF t = <<>> THEN <<>> ELSE <<t>>) \o TrimAndFilter(Tail(parts))

\* Array.from(new Set(arr)): first occurrences, in order
RECURSIVE Dedupe(_)
Dedupe(parts) ==
    IF parts = <<>> THEN <<>>
    ELSE LET rest == Dedupe(SubSeq(parts, 1, Len(parts) - 1))
             last == parts[Len(parts)]
         IN  IF last \in Range(rest) THEN rest ELSE Append(rest, last)

\* the filter of dropDuplicates, were it to keep every entry
KeepKey(record, key) == record

\* record.filter((entry) => entry.key !== key)
RECURSIVE FilterKey(_, _)
FilterKey(record, key) ==
    IF record = <<>> THEN <<>>
    ELSE (IF Head(record).key # key THEN <<Head(record)>> ELSE <<>>)
         \o FilterKey(Tail(record), key)

-----------------------------------------------------------------------------
(* helpers.ts: the comparator evaluator and the value parsers. *)

\* A comparator is [t, v, b]: t is the JavaScript type the evaluator tests
\* for; v lists the string (one entry), the strings of the array, or, for a
\* pure callback or a regular expression, the strings it accepts; b is the
\* boolean.
Star == <<"*">>

String(s) == [t |-> "string", v |-> <<s>>, b |-> FALSE]

Array(strings) == [t |-> "array", v |-> strings, b |-> FALSE]

RegExp(accepted) == [t |-> "regexp", v |-> accepted, b |-> FALSE]

Callback(accepted) == [t |-> "function", v |-> accepted, b |-> FALSE]

Boolean(b) == [t |-> "boolean", v |-> <<>>, b |-> b]

(* The tables of a policy (tags, a tag's attributes, a record rule's       *)
(* values) are object literals, and table[name] reads the prototype chain: *)
(* a name that is no key of the table but a member of Object.prototype     *)
(* yields that member. HTML names are lower case, so the one member a tag  *)
(* name, an attribute name or a record key can spell is "constructor",     *)
(* the function Object.                                                    *)
ConstructorName == "constructor"

ConstructorKey == <<"c", "o", "n", "s", "t", "r", "u", "c", "t", "o", "r">>

\* the function Object where a comparator is expected
ObjectAsComparator == [t |-> "Object", v |-> <<>>, b |-> FALSE]

\* matchComparator, were a list that holds "*" to match every value
matchComparatorStarInList(cmp, value) ==
    IF cmp.t = "string" /\ cmp.v[1] = Star THEN TRUE
    ELSE IF cmp.t = "function" THEN value \in Range(cmp.v)
    ELSE IF cmp.t = "Object" THEN TRUE
    ELSE IF cmp.t = "regexp" THEN value \in Range(cmp.v)
    ELSE IF cmp.t = "string" THEN value = cmp.v[1]
    ELSE IF cmp.t = "array" THEN value \in Range(cmp.v) \/ Star \in Range(cmp.v)
    ELSE IF cmp.t = "boolean" /\ cmp.b = TRUE THEN value = <<>>
    ELSE IF cmp.t = "boolean" /\ cmp.b = FALSE THEN value # <<>>
    ELSE FALSE

matchComparator(cmp, value) ==
    IF cmp.t = "string" /\ cmp.v[1] = Star THEN TRUE
    ELSE IF cmp.t = "function" THEN value \in Range(cmp.v)
    \* Object(value) is a String object, which the callers read as true
    ELSE IF cmp.t = "Object" THEN TRUE
    ELSE IF cmp.t = "regexp" THEN value \in Range(cmp.v)
    ELSE IF cmp.t = "string" THEN value = cmp.v[1]
    ELSE IF cmp.t = "array" THEN value \in Range(cmp.v)
    ELSE IF cmp.t = "boolean" /\ cmp.b = TRUE THEN value = <<>>
    ELSE IF cmp.t = "boolean" /\ cmp.b = FALSE THEN value # <<>>
    ELSE FALSE

\* the loop of parseRecord, were it to keep a pair whose value is empty
RECURSIVE ParseEntriesKeepingEmpty(_, _)
ParseEntriesKeepingEmpty(entries, pairSep) ==
    IF entries = <<>> THEN <<>>
    ELSE LET entry == Split(Head(entries), pairSep)
             rest  == ParseEntriesKeepingEmpty(Tail(entries), pairSep)
         IN  IF Len(entry) # 2 THEN rest
             ELSE IF Trim(entry[1]) = <<>> THEN rest
             ELSE <<[key |-> Trim(entry[1]), val |-> Trim(entry[2])]>> \o rest

RECURSIVE ParseEntries(_, _)
ParseEntries(entries, pairSep) ==
    IF entries = <<>> THEN <<>>
    ELSE LET entry == Split(Head(entries), pairSep)
             rest  == ParseEntries(Tail(entries), pairSep)
         IN  IF Len(entry) # 2 THEN rest
             ELSE IF Trim(entry[1]) = <<>> THEN rest
             ELSE IF Trim(entry[2]) = <<>> THEN rest
             ELSE <<[key |-> Trim(entry[1]), val |-> Trim(entry[2])]>> \o rest

parseRecord(inp, entrySep, pairSep) ==
    LET trimmed == Trim(inp)
    IN  IF trimmed = <<>> THEN <<>>
        ELSE ParseEntries(TrimAndFilter(Split(trimmed, entrySep)), pairSep)

parseSet(inp, delimiter) ==
    LET trimmed == Trim(inp)
    IN  IF trimmed = <<>> THEN <<>>
        ELSE Dedupe(TrimAndFilter(Split(trimmed, delimiter)))

-----------------------------------------------------------------------------
(* The tree model of parse5-htmlparser2-tree-adapter.  A node is           *)
(* [kind, tagName, attribs, parent, prev, next, children]; attribs is the  *)
(* insertion-ordered attribute map, a sequence of [key, value].            *)

Null == 0

NodeIds == 1..MaxNodes

\* the document fragment that parseFragment returns
Frag == MaxNodes + 1

\* Array.prototype.indexOf, 1-based here; 0 when absent
IndexOf(s, x) == IF x \in Range(s) THEN CHOOSE i \in 1..Len(s) : s[i] = x ELSE 0

\* children.splice(idx, 1): an index of -1 (absent) counts from the end
SpliceOut(s, i) ==
    LET at == IF i = 0 THEN Len(s) ELSE i
    IN  IF s = <<>> THEN s ELSE SubSeq(s, 1, at - 1) \o SubSeq(s, at + 1, Len(s))

\* children.splice(idx, 0, x)
SpliceIn(s, i, x) ==
    LET at == IF i = 0 THEN Max(Len(s), 1) ELSE i
    IN  SubSeq(s, 1, at - 1) \o <<x>> \o SubSeq(s, at, Len(s))

detachNode(t, node) ==
    IF t[node].parent = Null THEN t
    ELSE LET parent == t[node].parent
             prev   == t[node].prev
             next   == t[node].next
             t1 == [t EXCEPT ![node].prev = Null, ![node].next = Null]
             t2 == IF prev # Null THEN [t1 EXCEPT ![prev].next = next] ELSE t1
             t3 == IF next # Null THEN [t2 EXCEPT ![next].prev = prev] ELSE t2
         IN  [t3 EXCEPT ![parent].children =
                            SpliceOut(@, IndexOf(t[parent].children, node)),
                        ![node].parent = Null]

appendChild(t, parentNode, newNode) ==
    LET kids == t[parentNode].children
        prev == IF kids = <<>> THEN Null ELSE kids[Len(kids)]
        t1 == IF prev # Null
              THEN [t EXCEPT ![prev].next = newNode, ![newNode].prev = prev]
              ELSE t
    IN  [t1 EXCEPT ![parentNode].children = Append(@, newNode),
                   ![newNode].parent = parentNode]

insertBefore(t, parentNode, newNode, referenceNode) ==
    LET insertionIdx == IndexOf(t[parentNode].children, referenceNode)
        prev == t[referenceNode].prev
        t1 == IF prev # Null
              THEN [t EXCEPT ![prev].next = newNode, ![newNode].prev = prev]
              ELSE t
        t2 == [t1 EXCEPT ![referenceNode].prev = newNode,
                         ![newNode].next = referenceNode]
    IN  [t2 EXCEPT ![parentNode].children = SpliceIn(@, insertionIdx, newNode),
                   ![newNode].parent = parentNode]

\* element.firstChild
firstChild(t, node) ==
    IF t[node].children = <<>> THEN Null ELSE t[node].children[1]

\* "key in element.attribs"
HasAttr(attribs, key) == \E i \in 1..Len(attribs) : attribs[i].key = key

\* element.attribs[key], for a key that is present
GetAttr(attribs, key) ==
    attribs[CHOOSE i \in 1..Len(attribs) : attribs[i].key = key].value

\* element.attribs[key] = value: a present key keeps its place, a new one
\* goes last
SetAttr(attribs, key, value) ==
    IF HasAttr(attribs, key)
    THEN [i \in 1..Len(attribs) |->
            IF attribs[i].key = key THEN [key |-> key, value |-> value]
            ELSE attribs[i]]
    ELSE Append(attribs, [key |-> key, value |-> value])

\* delete element.attribs[key]
RECURSIVE DeleteAttr(_, _)
DeleteAttr(attribs, key) ==
    IF attribs = <<>> THEN <<>>
    ELSE (IF Head(attribs).key = key THEN <<>> ELSE <<Head(attribs)>>)
         \o DeleteAttr(Tail(attribs), key)

-----------------------------------------------------------------------------
(* The effect of a call: m = [tree, thrown, calls] is the tree as mutated  *)
(* so far, the Error thrown (NoError while none is) and the log of the     *)
(* handlers invoked.  A function that returns a value returns [m, ret].    *)
(* A throw ends every caller: it is returned as ret = FALSE with m.thrown  *)
(* set, and every caller leaves on FALSE.                                  *)

NoMessage == [tpl |-> "", tags |-> {}, attrs |-> {}, values |-> {}, numbers |-> {}]

NoError == NoMessage

Message(tpl, tags, attrs, values, numbers) ==
    [tpl |-> tpl, tags |-> tags, attrs |-> attrs, values |-> values,
     numbers |-> numbers]

\* errorMessage ?? dflt
OrElse(errorMessage, dflt) == IF errorMessage = NoMessage THEN dflt ELSE errorMessage

Logged(m, ev, node, key, mode) ==
    [m EXCEPT !.calls = Append(@, [ev |-> ev, node |-> node, key |-> key,
                                   mode |-> mode])]

Throw(m, message) == [m EXCEPT !.thrown = message]

-----------------------------------------------------------------------------
(* helpers.ts: unwrapInParent. *)

RECURSIVE InsertAllBefore(_, _, _, _)
InsertAllBefore(t, parent, kids, next) ==
    IF kids = <<>> THEN t
    ELSE InsertAllBefore(
            IF next # Null THEN insertBefore(t, parent, Head(kids), next)
            ELSE appendChild(t, parent, Head(kids)),
            parent, Tail(kids), next)

\* unwrapInParent, were it to append the children to the parent whatever
\* the next sibling
unwrapInParentAppending(t, element) ==
    IF Len(t[element].children) = 0 THEN detachNode(t, element)
    ELSE IF t[element].parent = Null THEN detachNode(t, element)
    ELSE detachNode(
            InsertAllBefore(t, t[element].parent, t[element].children, Null),
            element)

unwrapInParent(t, element) ==
    IF Len(t[element].children) = 0 THEN detachNode(t, element)
    ELSE IF t[element].parent = Null THEN detachNode(t, element)
    ELSE detachNode(
            InsertAllBefore(t, t[element].parent, t[element].children,
                            t[element].next),
            element)

-----------------------------------------------------------------------------
(* handlers/direct.ts. *)

\* handleTagError, were it to have no case for unwrapElement
handleTagErrorWithoutUnwrap(m, element, errorHandlingMode, errorMessage) ==
    LET m1 == Logged(m, "handleTagError", element, "", errorHandlingMode)
    IN  CASE errorHandlingMode = "discardElement" ->
               [m |-> [m1 EXCEPT !.tree = detachNode(@, element)], ret |-> FALSE]
          [] OTHER ->
               [m |-> Throw(m1, OrElse(errorMessage,
                         Message("Tag is not allowed",
                                 {m.tree[element].tagName}, {}, {}, {}))),
                ret |-> FALSE]

handleTagError(m, element, errorHandlingMode, errorMessage) ==
    LET m1 == Logged(m, "handleTagError", element, "", errorHandlingMode)
    IN  CASE errorHandlingMode = "discardElement" ->
               [m |-> [m1 EXCEPT !.tree = detachNode(@, element)], ret |-> FALSE]
          [] errorHandlingMode = "unwrapElement" ->
               [m |-> [m1 EXCEPT !.tree = unwrapInParent(@, element)], ret |-> FALSE]
          [] OTHER ->
               [m |-> Throw(m1, OrElse(errorMessage,
                         Message("Tag is not allowed",
                                 {m.tree[element].tagName}, {}, {}, {}))),
                ret |-> FALSE]

\* handleTagAttributeError, were it to report the attribute as handled
\* whatever handleTagError returns
handleTagAttributeErrorProceeding(m, attribute, element, errorHandlingMode, errorMessage) ==
    LET m1 == Logged(m, "handleTagAttributeError", element, attribute.key,
                     errorHandlingMode)
    IN  CASE errorHandlingMode = "discardAttribute" ->
               [m |-> [m1 EXCEPT !.tree[element].attribs =
                                     DeleteAttr(@, attribute.key)],
                ret |-> TRUE]
          [] OTHER ->
               [m |-> handleTagError(m1, element, errorHandlingMode,
                          OrElse(errorMessage,
                                 Message("Attribute is not allowed",
                                         {}, {attribute.key}, {}, {}))).m,
                ret |-> TRUE]

handleTagAttributeError(m, attribute, element, errorHandlingMode, errorMessage) ==
    LET m1 == Logged(m, "handleTagAttributeError", element, attribute.key,
                     errorHandlingMode)
    IN  CASE errorHandlingMode = "discardAttribute" ->
               [m |-> [m1 EXCEPT !.tree[element].attribs =
                                     DeleteAttr(@, attribute.key)],
                ret |-> TRUE]
          [] OTHER ->
               handleTagError(m1, element, errorHandlingMode,
                   OrElse(errorMessage,
                          Message("Attribute is not allowed",
                                  {}, {attribute.key}, {}, {})))

handleTagAttributeValueError(m, attribute, element, rule, errorHandlingMode, errorMessage) ==
    LET m1 == Logged(m, "handleTagAttributeValueError", element, attribute.key,
                     errorHandlingMode)
    IN  CASE errorHandlingMode = "applyDefaultValue" ->
               [m |-> IF TruthyStr(rule.defaultValue)
                      THEN [m1 EXCEPT !.tree[element].attribs =
                                SetAttr(@, attribute.key, Val(rule.defaultValue))]
                      ELSE [m1 EXCEPT !.tree[element].attribs =
                                DeleteAttr(@, attribute.key)],
                ret |-> TRUE]
          [] OTHER ->
               handleTagAttributeError(m1, attribute, element, errorHandlingMode,
                   OrElse(errorMessage,
                          Message("Value for attribute is not allowed",
                                  {}, {attribute.key}, {attribute.value}, {})))

handleTagAttributeRecordValueError(m, attribute, element, record, index, rule, errorHandlingMode, errorMessage) ==
    LET m1 == Logged(m, "handleTagAttributeRecordValueError", element,
                     attribute.key, errorHandlingMode)
    IN  CASE errorHandlingMode = "dropPair" -> [m |-> m1, ret |-> TRUE]
          [] OTHER ->
               handleTagAttributeValueError(m1, attribute, element, rule,
                   errorHandlingMode,
                   OrElse(errorMessage,
                          Message("Pair for attribute is not allowed",
                                  {}, {attribute.key},
                                  {record[index].key, record[index].val}, {})))

handleTagAttributeSetValueError(m, attribute, element, index, set, rule, errorHandlingMode, errorMessage) ==
    LET m1 == Logged(m, "handleTagAttributeSetValueError", element,
                     attribute.key, errorHandlingMode)
    IN  CASE errorHandlingMode = "dropValue" -> [m |-> m1, ret |-> TRUE]
          [] OTHER ->
               handleTagAttributeValueError(m1, attribute, element, rule,
                   errorHandlingMode,
                   OrElse(errorMessage,
                          Message("Value for attribute is not allowed",
                                  {}, {attribute.key}, {set[index]}, {})))

handleTagAttributeValueTooLongError(m, attribute, element, rule, errorHandlingMode, errorMessage) ==
    LET m1 == Logged(m, "handleTagAttributeValueTooLongError", element,
                     attribute.key, errorHandlingMode)
    IN  CASE errorHandlingMode = "trimExcess" ->
               [m |-> [m1 EXCEPT !.tree[element].attribs =
                          SetAttr(@, attribute.key,
                                  Slice(attribute.value, Val(rule.maxLength)))],
                ret |-> TRUE]
          [] OTHER ->
               handleTagAttributeValueError(m1, attribute, element, rule,
                   errorHandlingMode,
                   OrElse(errorMessage,
                          Message("Value for attribute is too long",
                                  {}, {attribute.key}, {attribute.value}, {})))

\* the loops of discardFirsts and discardLasts
RECURSIVE DetachFirsts(_, _, _)
DetachFirsts(t, element, n) ==
    IF n = 0 THEN t
    ELSE DetachFirsts(
            IF t[element].children # <<>>
            THEN detachNode(t, t[element].children[1]) ELSE t,
            element, n - 1)

\* the loop of discardLasts, were it to take the children from the front
RECURSIVE DetachLastsFromTheFront(_, _, _)
DetachLastsFromTheFront(t, element, n) ==
    IF n = 0 THEN t
    ELSE DetachLastsFromTheFront(
            IF t[element].children # <<>>
            THEN detachNode(t, t[element].children[1]) ELSE t,
            element, n - 1)

RECURSIVE DetachLasts(_, _, _)
DetachLasts(t, element, n) ==
    IF n = 0 THEN t
    ELSE DetachLasts(
            IF t[element].children # <<>>
            THEN detachNode(t, t[element].children[Len(t[element].children)])
            ELSE t,
            element, n - 1)

handleTagChildrenError(m, element, maxChildren, errorHandlingMode) ==
    LET m1 == Logged(m, "handleTagChildrenError", element, "", errorHandlingMode)
        len == Len(m.tree[element].children)
        excess == Max(0, len - maxChildren)
    IN  CASE errorHandlingMode = "discardElement" ->
               [m |-> [m1 EXCEPT !.tree = detachNode(@, element)], ret |-> FALSE]
          [] errorHandlingMode = "discardFirsts" ->
               [m |-> [m1 EXCEPT !.tree = DetachFirsts(@, element, excess)],
                ret |-> TRUE]
          [] errorHandlingMode = "discardLasts" ->
               [m |-> [m1 EXCEPT !.tree = DetachLasts(@, element, excess)],
                ret |-> TRUE]
          [] OTHER ->
               [m |-> Throw(m1,
                        IF m.tree[element].kind = "element"
                        THEN Message("Tag has exceeded the maximum allowed number of children",
                                     {m.tree[element].tagName}, {}, {}, {maxChildren})
                        ELSE Message("Root has exceeded the maximum allowed number of children",
                                     {}, {}, {}, {maxChildren})),
                ret |-> FALSE]

handleTagNestingError(m, element, maxNesting, errorHandlingMode) ==
    LET m1 == Logged(m, "handleTagNestingError", element, "", errorHandlingMode)
    IN  CASE errorHandlingMode = "discardElement" ->
               [m |-> [m1 EXCEPT !.tree = detachNode(@, element)], ret |-> FALSE]
          [] OTHER ->
               [m |-> Throw(m1,
                        IF m.tree[element].kind = "element"
                        THEN Message("Tag has exceeded the maximum nesting level",
                                     {m.tree[element].tagName}, {}, {}, {maxNesting})
                        ELSE Message("Root has exceeded the maximum nesting level",
                                     {}, {}, {}, {maxNesting})),
                ret |-> FALSE]

-----------------------------------------------------------------------------
(* handlers/indirect.ts. *)

handleTagAttributeCollectionValueTooManyError(m, attribute, element, collection, rule, errorHandlingMode, errorMessage) ==
    LET m1 == Logged(m, "handleTagAttributeCollectionValueTooManyError", element,
                     attribute.key, errorHandlingMode)
    IN  CASE errorHandlingMode = "dropExtra" ->
               [m |-> m1, output |-> Slice(collection, Val(rule.maxEntries)),
                proceed |-> TRUE]
          [] OTHER ->
               LET returning(r) ==
                       [m |-> r.m, output |-> collection, proceed |-> r.ret]
               IN  returning(handleTagAttributeValueError(m1, attribute, element,
                       rule, errorHandlingMode,
                       OrElse(errorMessage,
                              Message("Value for attribute has too many tokens",
                                      {}, {attribute.key}, {attribute.value},
                                      {}))))

\* the handler, were keepFirst to behave as keepLast
handleTagAttributeRecordValueDuplicateErrorKeepingLast(m, attribute, element, key, record, rule, errorHandlingMode, errorMessage) ==
    LET m1 == Logged(m, "handleTagAttributeRecordValueDuplicateError", element,
                     attribute.key, errorHandlingMode)
    IN  CASE errorHandlingMode = "dropDuplicates" ->
               [m |-> m1, globalProceed |-> TRUE, localProceed |-> FALSE,
                output |-> FilterKey(record, key)]
          [] errorHandlingMode = "keepDuplicates" ->
               [m |-> m1, globalProceed |-> TRUE, localProceed |-> TRUE,
                output |-> record]
          [] errorHandlingMode = "keepFirst" ->
               [m |-> m1, globalProceed |-> TRUE, localProceed |-> TRUE,
                output |-> FilterKey(record, key)]
          [] errorHandlingMode = "keepLast" ->
               [m |-> m1, globalProceed |-> TRUE, localProceed |-> TRUE,
                output |-> FilterKey(record, key)]
          [] OTHER ->
               LET returning(r) ==
                       [m |-> r.m, globalProceed |-> r.ret,
                        localProceed |-> r.ret, output |-> record]
               IN  returning(handleTagAttributeValueError(m1, attribute, element,
                       rule, errorHandlingMode,
                       OrElse(errorMessage,
                              Message("Value for attribute has duplicate keys",
                                      {}, {attribute.key},
                                      {attribute.value, key}, {}))))

handleTagAttributeRecordValueDuplicateError(m, attribute, element, key, record, rule, errorHandlingMode, errorMessage) ==
    LET m1 == Logged(m, "handleTagAttributeRecordValueDuplicateError", element,
                     attribute.key, errorHandlingMode)
    IN  CASE errorHandlingMode = "dropDuplicates" ->
               [m |-> m1, globalProceed |-> TRUE, localProceed |-> FALSE,
                output |-> FilterKey(record, key)]
          [] errorHandlingMode = "keepDuplicates" ->
               [m |-> m1, globalProceed |-> TRUE, localProceed |-> TRUE,
                output |-> record]
          [] errorHandlingMode = "keepFirst" ->
               [m |-> m1, globalProceed |-> TRUE, localProceed |-> FALSE,
                output |-> record]
          [] errorHandlingMode = "keepLast" ->
               [m |-> m1, globalProceed |-> TRUE, localProceed |-> TRUE,
                output |-> FilterKey(record, key)]
          [] OTHER ->
               LET returning(r) ==
                       [m |-> r.m, globalProceed |-> r.ret,
                        localProceed |-> r.ret, output |-> record]
               IN  returning(handleTagAttributeValueError(m1, attribute, element,
                       rule, errorHandlingMode,
                       OrElse(errorMessage,
                              Message("Value for attribute has duplicate keys",
                                      {}, {attribute.key},
                                      {attribute.value, key}, {}))))

-----------------------------------------------------------------------------
(* sanitizers.ts.                                                          *)
(* rules is the sequence of the entries [key, rule] of the attribute rule  *)
(* object, in Object.entries order (<<>> when the tag rule has none).  A   *)
(* rule is [mode, value, values, entries, delimiter, entrySeparator,       *)
(* keyValueSeparator, maxEntries, defaultValue, maxLength, required]:      *)
(* values is the comparator of a set rule, entries the sequence of the     *)
(* entries [key, cmp] of the values object of a record rule.               *)

\* a rule with every optional field absent
BaseRule ==
    [mode |-> "simple", value |-> String(Star),
     values |-> String(Star), entries |-> <<>>, delimiter |-> " ",
     entrySeparator |-> ";",
     keyValueSeparator |-> ":", maxEntries |-> {}, defaultValue |-> {},
     maxLength |-> {}, required |-> FALSE]

\* the function Object where an attribute rule is expected: it has none of
\* a rule's fields
ObjectAsRule == [BaseRule EXCEPT !.mode = "undefined"]

\* the rule that is the value of key name in the table rules
OwnRuleOf(rules, name) ==
    {rules[i].rule : i \in {j \in 1..Len(rules) : rules[j].key = name}}

\* rules?.[name], as an optional value; an absent table is the empty sequence
RuleOf(rules, name) ==
    IF OwnRuleOf(rules, name) # {} THEN OwnRuleOf(rules, name)
    ELSE IF rules # <<>> /\ name = ConstructorName THEN {ObjectAsRule}
    ELSE {}

\* the comparator that is the value of key in the values of a record rule
OwnPairRuleOf(rule, key) ==
    {rule.entries[i].cmp :
        i \in {j \in 1..Len(rule.entries) : rule.entries[j].key = key}}

\* rule.values[key] of a record rule, as an optional comparator
PairRuleOf(rule, key) ==
    IF OwnPairRuleOf(rule, key) # {} THEN OwnPairRuleOf(rule, key)
    ELSE IF key = ConstructorKey THEN {ObjectAsComparator}
    ELSE {}

\* "!pairRule": undefined, false and "" are falsy
Falsy(optCmp) ==
    \/ optCmp = {}
    \/ \E c \in optCmp : \/ c.t = "boolean" /\ c.b = FALSE
                         \/ c.t = "string" /\ c.v[1] = <<>>

RECURSIVE RequiredLoop(_, _, _, _, _)
RequiredLoop(m, element, rules, errorHandling, i) ==
    IF i > Len(rules) THEN [m |-> m, ret |-> TRUE]
    ELSE LET attrName == rules[i].key
             rule == rules[i].rule
         IN  IF attrName = "*"
             THEN RequiredLoop(m, element, rules, errorHandling, i + 1)
             ELSE IF rule.required /\ ~HasAttr(m.tree[element].attribs, attrName)
             THEN LET handled(r) ==
                          IF ~r.ret THEN [m |-> r.m, ret |-> FALSE]
                          ELSE RequiredLoop(r.m, element, rules, errorHandling,
                                            i + 1)
                  IN  handled(handleTagAttributeValueError(
                          Logged(m, "enforceRequiredAttributes", element,
                                 attrName, errorHandling.attributeValue),
                          [key |-> attrName, value |-> <<>>], element, rule,
                          errorHandling.attributeValue, NoMessage))
             ELSE RequiredLoop(m, element, rules, errorHandling, i + 1)

enforceRequiredAttributes(m, element, rules, errorHandling) ==
    RequiredLoop(m, element, rules, errorHandling, 1)

sanitizeTag(m, element, rule, errorHandling) ==
    IF rule # {} THEN [m |-> m, ret |-> TRUE]
    ELSE handleTagError(m, element, errorHandling, NoMessage)

sanitizeTagAttribute(m, attribute, element, rule, errorHandling) ==
    IF rule # {} THEN [m |-> m, globalProceed |-> TRUE, localProceed |-> TRUE]
    ELSE LET returning(r) ==
                 [m |-> r.m, globalProceed |-> r.ret, localProceed |-> FALSE]
         IN  returning(handleTagAttributeError(m, attribute, element,
                                               errorHandling, NoMessage))

\* output.map(({ key, val }) => `${key}${sep}${val}`)
RECURSIVE PairStrings(_, _)
PairStrings(output, keyValueSeparator) ==
    IF output = <<>> THEN <<>>
    ELSE <<Head(output).key \o <<keyValueSeparator>> \o Head(output).val>>
         \o PairStrings(Tail(output), keyValueSeparator)

RECURSIVE RecordLoop(_, _, _, _, _, _, _, _, _)
RecordLoop(m, attribute, element, rule, errorHandling, inp, index, seen, output) ==
    IF index > Len(inp) THEN [m |-> m, ret |-> TRUE, output |-> output]
    ELSE
    LET key == inp[index].key
        val == inp[index].val
        pairRule == PairRuleOf(rule, key)
        handled(r, out) ==
            IF ~r.ret THEN [m |-> r.m, ret |-> FALSE, output |-> out]
            ELSE RecordLoop(r.m, attribute, element, rule, errorHandling, inp,
                            index + 1, seen, out)
        checked(dup) ==
            IF ~dup.globalProceed
            THEN [m |-> dup.m, ret |-> FALSE, output |-> dup.output]
            ELSE IF ~dup.localProceed
            THEN RecordLoop(dup.m, attribute, element, rule, errorHandling, inp,
                            index + 1, seen, dup.output)
            ELSE IF Falsy(pairRule) \/ ~matchComparator(Val(pairRule), val)
            THEN handled(handleTagAttributeRecordValueError(dup.m, attribute,
                             element, inp, index, rule,
                             errorHandling.attributeRecordValue, NoMessage),
                         dup.output)
            ELSE RecordLoop(dup.m, attribute, element, rule, errorHandling, inp,
                            index + 1, seen \cup {key},
                            Append(dup.output, [key |-> key, val |-> val]))
    IN  checked(IF key \in seen
                THEN handleTagAttributeRecordValueDuplicateError(m, attribute,
                         element, key, output, rule,
                         errorHandling.attributeRecordValueDuplicate, NoMessage)
                ELSE [m |-> m, globalProceed |-> TRUE, localProceed |-> TRUE,
                      output |-> output])

sanitizeTagAttributeRecordValue(m, attribute, element, rule, errorHandling) ==
    LET parsed == parseRecord(attribute.value, rule.entrySeparator,
                              rule.keyValueSeparator)
        written(r) ==
            IF ~r.ret THEN [m |-> r.m, ret |-> FALSE]
            ELSE [m |-> [r.m EXCEPT !.tree[element].attribs =
                           SetAttr(@, attribute.key,
                               Join(PairStrings(r.output, rule.keyValueSeparator),
                                    rule.entrySeparator))],
                  ret |-> TRUE]
        counted(many) ==
            IF ~many.proceed THEN [m |-> many.m, ret |-> FALSE]
            ELSE written(RecordLoop(many.m, attribute, element, rule,
                                    errorHandling, many.output, 1, {}, <<>>))
    IN  counted(IF Truthy(rule.maxEntries) /\ Len(parsed) > Val(rule.maxEntries)
                THEN handleTagAttributeCollectionValueTooManyError(m, attribute,
                         element, parsed, rule,
                         errorHandling.attributeCollectionValueTooMany, NoMessage)
                ELSE [m |-> m, output |-> parsed, proceed |-> TRUE])

\* the loop over the tokens of a set, were an unset attributeSetValue to
\* inherit the strategy of attributeValue
RECURSIVE SetLoopInheriting(_, _, _, _, _, _, _, _)
SetLoopInheriting(m, attribute, element, rule, errorHandling, inp, index, output) ==
    IF index > Len(inp) THEN [m |-> m, ret |-> TRUE, output |-> output]
    ELSE IF ~matchComparator(rule.values, inp[index])
    THEN LET handled(r) ==
                 IF ~r.ret THEN [m |-> r.m, ret |-> FALSE, output |-> output]
                 ELSE SetLoopInheriting(r.m, attribute, element, rule, errorHandling, inp,
                              index + 1, output)
         IN  handled(handleTagAttributeSetValueError(m, attribute, element, index,
                         inp, rule,
                         IF errorHandling.attributeSetValue = "undefined"
                         THEN errorHandling.attributeValue
                         ELSE errorHandling.attributeSetValue, NoMessage))
    ELSE SetLoopInheriting(m, attribute, element, rule, errorHandling, inp, index + 1,
                 Append(output, inp[index]))

RECURSIVE SetLoop(_, _, _, _, _, _, _, _)
SetLoop(m, attribute, element, rule, errorHandling, inp, index, output) ==
    IF index > Len(inp) THEN [m |-> m, ret |-> TRUE, output |-> output]
    ELSE IF ~matchComparator(rule.values, inp[index])
    THEN LET handled(r) ==
                 IF ~r.ret THEN [m |-> r.m, ret |-> FALSE, output |-> output]
                 ELSE SetLoop(r.m, attribute, element, rule, errorHandling, inp,
                              index + 1, output)
         IN  handled(handleTagAttributeSetValueError(m, attribute, element, index,
                         inp, rule, errorHandling.attributeSetValue, NoMessage))
    ELSE SetLoop(m, attribute, element, rule, errorHandling, inp, index + 1,
                 Append(output, inp[index]))

sanitizeTagAttributeSetValue(m, attribute, element, rule, errorHandling) ==
    LET parsed == parseSet(attribute.value, rule.delimiter)
        written(r) ==
            IF ~r.ret THEN [m |-> r.m, ret |-> FALSE]
            ELSE [m |-> [r.m EXCEPT !.tree[element].attribs =
                           SetAttr(@, attribute.key,
                                   Join(r.output, rule.delimiter))],
                  ret |-> TRUE]
        counted(many) ==
            IF ~many.proceed THEN [m |-> many.m, ret |-> FALSE]
            ELSE written(SetLoop(many.m, attribute, element, rule, errorHandling,
                                 many.output, 1, <<>>))
    IN  counted(IF Truthy(rule.maxEntries) /\ Len(parsed) > Val(rule.maxEntries)
                THEN handleTagAttributeCollectionValueTooManyError(m, attribute,
                         element, parsed, rule,
                         errorHandling.attributeCollectionValueTooMany, NoMessage)
                ELSE [m |-> m, output |-> parsed, proceed |-> TRUE])

sanitizeTagAttributeSimpleValue(m, attribute, element, rule, errorHandling) ==
    IF ~matchComparator(rule.value, attribute.value)
    THEN handleTagAttributeValueError(m, attribute, element, rule, errorHandling,
                                      NoMessage)
    ELSE [m |-> m, ret |-> TRUE]

\* the switch on rule.mode
SanitizeByMode(m, attribute, element, rule, errorHandling) ==
    CASE rule.mode = "record" ->
           sanitizeTagAttributeRecordValue(m, attribute, element, rule, errorHandling)
      [] rule.mode = "set" ->
           sanitizeTagAttributeSetValue(m, attribute, element, rule, errorHandling)
      [] rule.mode = "simple" ->
           sanitizeTagAttributeSimpleValue(m, attribute, element, rule,
                                           errorHandling.attributeValue)
      \* no case matches: the function returns undefined, read as false
      [] OTHER -> [m |-> m, ret |-> FALSE]

\* sanitizeTagAttributeValue, were it to validate the value it was given
\* after the handler of an overlong value returned true
sanitizeTagAttributeValueNotRereading(m, attribute, element, rule, errorHandling) ==
    LET trimmed(r) ==
            IF ~r.ret THEN [m |-> r.m, ret |-> FALSE]
            ELSE SanitizeByMode(r.m, attribute, element, rule, errorHandling)
    IN  IF Truthy(rule.maxLength) /\ Len(attribute.value) > Val(rule.maxLength)
        THEN trimmed(handleTagAttributeValueTooLongError(m, attribute, element,
                         rule, errorHandling.attributeValueTooLong, NoMessage))
        ELSE SanitizeByMode(m, attribute, element, rule, errorHandling)

sanitizeTagAttributeValue(m, attribute, element, rule, errorHandling) ==
    LET \* attribute.value = element.attribs[attribute.key]; undefined and ""
        \* are falsy
        trimmed(r) ==
            LET attribs == r.m.tree[element].attribs
            IN  IF ~r.ret THEN [m |-> r.m, ret |-> FALSE]
                ELSE IF ~HasAttr(attribs, attribute.key)
                THEN [m |-> r.m, ret |-> TRUE]
                ELSE IF GetAttr(attribs, attribute.key) = <<>>
                THEN [m |-> r.m, ret |-> TRUE]
                ELSE SanitizeByMode(r.m,
                         [key |-> attribute.key,
                          value |-> GetAttr(attribs, attribute.key)],
                         element, rule, errorHandling)
    IN  IF Truthy(rule.maxLength) /\ Len(attribute.value) > Val(rule.maxLength)
        THEN trimmed(handleTagAttributeValueTooLongError(m, attribute, element,
                         rule, errorHandling.attributeValueTooLong, NoMessage))
        ELSE SanitizeByMode(m, attribute, element, rule, errorHandling)

RECURSIVE AttributeLoop(_, _, _, _, _, _)
AttributeLoop(m, element, rules, errorHandling, keys, i) ==
    IF i > Len(keys) THEN [m |-> m, ret |-> TRUE]
    ELSE
    LET name == keys[i]
        value == GetAttr(m.tree[element].attribs, name)
        own == RuleOf(rules, name)
        rule == IF own # {} THEN own ELSE RuleOf(rules, "*")
        sanitized(r) ==
            IF ~r.ret THEN [m |-> r.m, ret |-> FALSE]
            ELSE AttributeLoop(r.m, element, rules, errorHandling, keys, i + 1)
        admitted(adm) ==
            IF ~adm.globalProceed THEN [m |-> adm.m, ret |-> FALSE]
            ELSE IF ~adm.localProceed
            THEN AttributeLoop(adm.m, element, rules, errorHandling, keys, i + 1)
            ELSE sanitized(sanitizeTagAttributeValue(adm.m,
                               [key |-> name, value |-> value], element,
                               Val(rule), errorHandling))
    IN  admitted(sanitizeTagAttribute(m, [key |-> name, value |-> value], element,
                                      rule, errorHandling.attribute))

\* Object.keys(element.attribs)
Keys(attribs) == [i \in 1..Len(attribs) |-> attribs[i].key]

\* sanitizeAttributes, were it to enforce the required attributes before it
\* sanitizes the present ones
sanitizeAttributesRequiredFirst(m, element, rules, errorHandling) ==
    LET keys == Keys(m.tree[element].attribs)
        returning(done) ==
            [m |-> Logged(done.m, "sanitizeAttributes", element, "",
                          IF done.ret THEN "true" ELSE "false"),
             ret |-> done.ret]
        looped(r) ==
            IF ~r.ret THEN r
            ELSE AttributeLoop(r.m, element, rules, errorHandling, keys, 1)
    IN  returning(looped(enforceRequiredAttributes(m, element, rules,
                                                   errorHandling)))

sanitizeAttributes(m, element, rules, errorHandling) ==
    LET keys == Keys(m.tree[element].attribs)
        returning(done) ==
            [m |-> Logged(done.m, "sanitizeAttributes", element, "",
                          IF done.ret THEN "true" ELSE "false"),
             ret |-> done.ret]
        looped(r) ==
            IF ~r.ret THEN r
            ELSE enforceRequiredAttributes(r.m, element, rules, errorHandling)
    IN  returning(IF Len(keys) = 0
                  THEN enforceRequiredAttributes(m, element, rules, errorHandling)
                  ELSE looped(AttributeLoop(m, element, rules, errorHandling,
                                            keys, 1)))

-----------------------------------------------------------------------------
(* walker.ts.                                                              *)
(* options is [tags, topLevelLimits, preserveComments, errorHandling];     *)
(* tags is a function from the allowed tag names to their rules            *)
(* [attributes, limits]; state is [rootNesting, tagNesting].               *)

\* the function Object where a tag rule is expected: it has neither
\* attributes nor limits
ObjectAsTagRule ==
    [attributes |-> <<>>, limits |-> [children |-> {}, nesting |-> {}]]

\* options.tags?.[tagName], as an optional value
TagRuleOf(opts, tagName) ==
    IF tagName \in DOMAIN opts.tags THEN {opts.tags[tagName]}
    ELSE IF tagName = ConstructorName THEN {ObjectAsTagRule}
    ELSE {}

\* the loop of the tag nesting enforcement, were walkElement to go on to the
\* children after the nesting handler
RECURSIVE NestingLoopProceeding(_, _, _, _, _)
NestingLoopProceeding(m, element, opts, tagDepth, i) ==
    IF i < 1 THEN [m |-> m, ret |-> TRUE, tagDepth |-> tagDepth]
    ELSE LET bumped == [tagDepth EXCEPT ![i].value = @ + 1]
             tagRule == TagRuleOf(opts, bumped[i].key)
         IN  IF tagRule = {} \/ ~Truthy(Val(tagRule).limits.nesting)
             THEN NestingLoopProceeding(m, element, opts, bumped, i - 1)
             ELSE IF bumped[i].value > Val(Val(tagRule).limits.nesting)
             THEN [m |-> handleTagNestingError(m, element,
                             Val(Val(tagRule).limits.nesting),
                             opts.errorHandling.tagNesting).m,
                   ret |-> TRUE, tagDepth |-> bumped]
             ELSE NestingLoopProceeding(m, element, opts, bumped, i - 1)

\* the loop of the tag nesting enforcement, from the innermost frame outwards:
\* ret is FALSE when the handler was invoked
RECURSIVE NestingLoop(_, _, _, _, _)
NestingLoop(m, element, opts, tagDepth, i) ==
    IF i < 1 THEN [m |-> m, ret |-> TRUE, tagDepth |-> tagDepth]
    ELSE LET bumped == [tagDepth EXCEPT ![i].value = @ + 1]
             tagRule == TagRuleOf(opts, bumped[i].key)
         IN  IF tagRule = {} \/ ~Truthy(Val(tagRule).limits.nesting)
             THEN NestingLoop(m, element, opts, bumped, i - 1)
             ELSE IF bumped[i].value > Val(Val(tagRule).limits.nesting)
             THEN [m |-> handleTagNestingError(m, element,
                             Val(Val(tagRule).limits.nesting),
                             opts.errorHandling.tagNesting).m,
                   ret |-> FALSE, tagDepth |-> bumped]
             ELSE NestingLoop(m, element, opts, bumped, i - 1)

\* walkElement up to its loop over the children: descend says whether that
\* loop is reached, newState is the state it hands to walkNode
walkElement(m, element, opts, state) ==
    LET tagName == m.tree[element].tagName
        tagRule == TagRuleOf(opts, tagName)
        stop(mm) == [m |-> mm, descend |-> FALSE, newState |-> state]
        nested(nest) ==
            IF ~nest.ret THEN stop(nest.m)
            ELSE [m |-> Logged(nest.m, "walkChildren", element, "", ""),
                  descend |-> TRUE,
                  newState |->
                    [state EXCEPT !.tagNesting =
                        Append(nest.tagDepth, [key |-> tagName, value |-> 0])]]
        counted(kids) ==
            IF ~kids.ret THEN stop(kids.m)
            ELSE nested(NestingLoop(
                            Logged(kids.m, "enforceNesting", element, "", ""),
                            element, opts, state.tagNesting,
                            Len(state.tagNesting)))
        sanitized(attrs) ==
            IF ~attrs.ret THEN stop(attrs.m)
            ELSE LET m2 == Logged(attrs.m, "enforceChildren", element, "", "")
                     limit == Val(tagRule).limits.children
                 IN  counted(IF Truthy(limit)
                                /\ Len(m2.tree[element].children) > Val(limit)
                             THEN handleTagChildrenError(m2, element, Val(limit),
                                      opts.errorHandling.tagChildren)
                             ELSE [m |-> m2, ret |-> TRUE])
        allowed(tagged) ==
            IF ~tagged.ret THEN stop(tagged.m)
            ELSE sanitized(sanitizeAttributes(tagged.m, element,
                               Val(tagRule).attributes, opts.errorHandling))
    IN  allowed(sanitizeTag(m, element, tagRule, opts.errorHandling.tag))

\* walkNode, were it to hand its own state to walkElement
walkNodeKeepingRootNesting(m, node, opts, state) ==
    LET stay(mm) == [m |-> mm, descend |-> FALSE, newState |-> state]
        entered == Logged(m, "walkNode", node, "", "")
    IN  IF m.tree[node].kind = "element"
        THEN IF Truthy(opts.topLevelLimits.nesting)
                /\ state.rootNesting > Val(opts.topLevelLimits.nesting)
             THEN stay(handleTagNestingError(entered, node,
                           Val(opts.topLevelLimits.nesting),
                           opts.errorHandling.tagNesting).m)
             ELSE walkElement(entered, node, opts, state)
        ELSE IF m.tree[node].kind = "comment" /\ ~opts.preserveComments
        THEN stay([entered EXCEPT !.tree = detachNode(@, node)])
        ELSE stay(entered)

walkNode(m, node, opts, state) ==
    LET stay(mm) == [m |-> mm, descend |-> FALSE, newState |-> state]
        entered == Logged(m, "walkNode", node, "", "")
    IN  IF m.tree[node].kind = "element"
        THEN IF Truthy(opts.topLevelLimits.nesting)
                /\ state.rootNesting > Val(opts.topLevelLimits.nesting)
             THEN stay(handleTagNestingError(entered, node,
                           Val(opts.topLevelLimits.nesting),
                           opts.errorHandling.tagNesting).m)
             ELSE walkElement(entered, node, opts,
                              [state EXCEPT !.rootNesting = @ + 1])
        ELSE IF m.tree[node].kind = "comment" /\ ~opts.preserveComments
        THEN stay([entered EXCEPT !.tree = detachNode(@, node)])
        ELSE stay(entered)

-----------------------------------------------------------------------------
(* index.ts: sanitizeHtml, and the run of the walker.                      *)
(* The two loops "child = first; while (child) { next = child.nextSibling; *)
(* walkNode(child, ...); child = next }" of sanitizeHtml and walkElement   *)
(* are the frames [owner, child, state] of stack: child is the loop        *)
(* variable, state the state handed to walkNode.                           *)

\* serialize(frag): the nodes in document order, by the children arrays
RECURSIVE Serialize(_, _)
Serialize(t, node) ==
    LET forest == [i \in 1..Len(t[node].children) |->
                     LET c == t[node].children[i]
                     IN  [kind |-> t[c].kind, tagName |-> t[c].tagName,
                          attribs |-> t[c].attribs,
                          children |-> Serialize(t, c)]]
        \* adjacent text nodes are written as one run of characters
        kept == {i \in DOMAIN forest :
                   ~(i > 1 /\ forest[i].kind = "text"
                           /\ forest[i - 1].kind = "text")}
    IN  [j \in 1..Cardinality(kept) |->
            forest[CHOOSE i \in kept :
                     Cardinality({k \in kept : k <= i}) = j]]

Machine == [tree |-> tree, thrown |-> thrown, calls |-> calls]

Top == stack[Len(stack)]

\* sanitizeHtml up to its loop over the top-level nodes
SanitizeHtml ==
    /\ pc = "start"
    /\ UNCHANGED <<options, input, pass, first>>
    /\ IF tree[Frag].children = <<>>
       THEN \* html === ""
            /\ pc' = "done"
            /\ result' = <<>>
            /\ UNCHANGED <<tree, stack, thrown, calls>>
       ELSE LET limit == options.topLevelLimits.children
                counted(kids) ==
                    /\ tree' = kids.m.tree
                    /\ thrown' = kids.m.thrown
                    /\ calls' = kids.m.calls
                    /\ IF kids.m.thrown # NoError
                       THEN pc' = "thrown" /\ UNCHANGED <<stack, result>>
                       ELSE IF ~kids.ret
                       THEN pc' = "done" /\ result' = <<>> /\ UNCHANGED stack
                       ELSE /\ pc' = "walk"
                            /\ stack' = <<[owner |-> Frag,
                                           child |-> firstChild(kids.m.tree, Frag),
                                           state |-> [rootNesting |-> 0,
                                                      tagNesting |-> <<>>]]>>
                            /\ UNCHANGED result
            IN  counted(IF Truthy(limit) /\ Len(tree[Frag].children) > Val(limit)
                        THEN handleTagChildrenError(Machine, Frag, Val(limit),
                                 options.errorHandling.tagChildren)
                        ELSE [m |-> Machine, ret |-> TRUE])

\* one turn of a loop, were next read after walkNode(child) has run
WalkChildReadingNextAfter(kind) ==
    /\ pc = "walk"
    /\ stack # <<>>
    /\ Top.child # Null
    /\ tree[Top.child].kind = kind
    /\ LET child == Top.child
           advanced == [stack EXCEPT ![Len(stack)].child = tree'[child].next]
           walked(r) ==
               /\ tree' = r.m.tree
               /\ thrown' = r.m.thrown
               /\ calls' = r.m.calls
               /\ IF r.m.thrown # NoError
                  THEN pc' = "thrown" /\ UNCHANGED stack
                  ELSE /\ pc' = pc
                       /\ stack' = IF r.descend
                                   THEN Append(advanced,
                                          [owner |-> child,
                                           child |-> firstChild(r.m.tree, child),
                                           state |-> r.newState])
                                   ELSE advanced
       IN  walked(walkNode(Machine, child, options, Top.state))
    /\ UNCHANGED <<options, result, input, pass, first>>

\* one turn of a loop: next is read before walkNode(child) runs
WalkChild(kind) ==
    /\ pc = "walk"
    /\ stack # <<>>
    /\ Top.child # Null
    /\ tree[Top.child].kind = kind
    /\ LET child == Top.child
           next == tree[child].next
           advanced == [stack EXCEPT ![Len(stack)].child = next]
           walked(r) ==
               /\ tree' = r.m.tree
               /\ thrown' = r.m.thrown
               /\ calls' = r.m.calls
               /\ IF r.m.thrown # NoError
                  THEN pc' = "thrown" /\ UNCHANGED stack
                  ELSE /\ pc' = pc
                       /\ stack' = IF r.descend
                                   THEN Append(advanced,
                                          [owner |-> child,
                                           child |-> firstChild(r.m.tree, child),
                                           state |-> r.newState])
                                   ELSE advanced
       IN  walked(walkNode(Machine, child, options, Top.state))
    /\ UNCHANGED <<options, result, input, pass, first>>

WalkElementNode == WalkChild("element")

WalkCommentNode == WalkChild("comment")

WalkTextNode == WalkChild("text")

\* the end of a loop: walkElement returns to its caller's loop, sanitizeHtml
\* serializes the fragment
Return ==
    /\ pc = "walk"
    /\ stack # <<>>
    /\ Top.child = Null
    /\ stack' = SubSeq(stack, 1, Len(stack) - 1)
    /\ IF Len(stack) = 1
       THEN pc' = "done" /\ result' = Serialize(tree, Frag)
       ELSE UNCHANGED <<pc, result>>
    /\ UNCHANGED <<tree, options, thrown, calls, input, pass, first>>

-----------------------------------------------------------------------------
(* The inputs: fragments of at most MaxNodes nodes, numbered in document   *)
(* order, and policies.                                                    *)

BlankNode ==
    [kind |-> "none", tagName |-> "", attribs |-> <<>>, parent |-> Null,
     prev |-> Null, next |-> Null, children |-> <<>>]

RECURSIVE SortedSeq(_)
SortedSeq(S) ==
    IF S = {} THEN <<>>
    ELSE LET least == CHOOSE x \in S : \A y \in S : x <= y
         IN  <<least>> \o SortedSeq(S \ {least})

\* the nodes from node k up to the fragment, by the parent function par
RECURSIVE PathUp(_, _)
PathUp(par, k) == IF k = Frag THEN {Frag} ELSE {k} \cup PathUp(par, par[k])

\* par lists the parents of nodes 1..n in document order
WellShaped(n, par, lab) ==
    /\ \A i \in 1..n : par[i] = Frag \/ par[i] < i
    /\ \A i \in 2..n : par[i] \in PathUp(par, i - 1)
    /\ \A i \in 1..n : par[i] # Frag => lab[par[i]].kind = "element"

\* the tree the parser builds for that fragment
TreeOf(n, par, lab) ==
    [x \in 1..Frag |->
        LET kids == SortedSeq({i \in 1..n : par[i] = x})
        IN  IF x = Frag
            THEN [BlankNode EXCEPT !.kind = "fragment", !.children = kids]
            ELSE IF x > n THEN BlankNode
            ELSE LET sibs == SortedSeq({i \in 1..n : par[i] = par[x]})
                     at == IndexOf(sibs, x)
                 IN  [kind |-> lab[x].kind, tagName |-> lab[x].tagName,
                      attribs |-> lab[x].attribs, parent |-> par[x],
                      prev |-> IF at = 1 THEN Null ELSE sibs[at - 1],
                      next |-> IF at = Len(sibs) THEN Null ELSE sibs[at + 1],
                      children |-> kids]]

Element(tagName, attribs) ==
    [kind |-> "element", tagName |-> tagName, attribs |-> attribs]

Comment == [kind |-> "comment", tagName |-> "", attribs |-> <<>>]

Text == [kind |-> "text", tagName |-> "", attribs |-> <<>>]

\* the errorHandling object with no slot set
NoHandling ==
    [attribute |-> "undefined", attributeCollectionValueTooMany |-> "undefined",
     attributeRecordValue |-> "undefined",
     attributeRecordValueDuplicate |-> "undefined",
     attributeSetValue |-> "undefined", attributeValue |-> "undefined",
     attributeValueTooLong |-> "undefined", tag |-> "undefined",
     tagChildren |-> "undefined", tagNesting |-> "undefined"]

NoLimits == [children |-> {}, nesting |-> {}]

\* the limits tried: unset, or a limit of one
LimitChoices == {{}, {1}}

\* the children limits tried: unset, zero, or one
ChildrenChoices == {{}, {0}, {1}}

\* an attribute whose name is a member of Object.prototype
ConstructorAttr == [key |-> ConstructorName, value |-> <<>>]

(* Fragments over the tags div and b (allowed), x and constructor (not     *)
(* allowed), with comments and text, under every combination of the limits *)
(* and of the strategies of the tag, tagChildren and tagNesting slots. The *)
(* rule of b has an attribute table.                                       *)
WalkerLabels ==
    {Element("div", <<>>), Element("b", <<>>), Element("b", <<ConstructorAttr>>),
     Element("x", <<>>), Element(ConstructorName, <<>>), Comment, Text}

WalkerTrees ==
    UNION {
      UNION {
        {TreeOf(n, par, lab) :
            lab \in {l \in [1..n -> WalkerLabels] : WellShaped(n, par, l)}}
        : par \in [1..n -> 1..Frag]}
      : n \in 0..MaxMixed}

\* the fragments of MaxNodes div elements, of every shape
DeepTrees ==
    {TreeOf(MaxNodes, par, [i \in 1..MaxNodes |-> Element("div", <<>>)]) :
        par \in {p \in [1..MaxNodes -> 1..Frag] :
                   WellShaped(MaxNodes, p,
                              [i \in 1..MaxNodes |-> Element("div", <<>>)])}}

WalkerOptions ==
    {[tags |-> [tagName \in {"div", "b"} |->
                  IF tagName = "div"
                  THEN [attributes |-> <<>>,
                        limits |-> [children |-> c, nesting |-> d]]
                  ELSE [attributes |-> <<[key |-> "class", rule |-> BaseRule]>>,
                        limits |-> NoLimits]],
      topLevelLimits |-> [children |-> tc, nesting |-> td],
      preserveComments |-> pcm,
      errorHandling |-> [NoHandling EXCEPT !.tag = et, !.tagChildren = ec,
                                           !.tagNesting = en]] :
        c \in ChildrenChoices, d \in LimitChoices, tc \in ChildrenChoices,
        td \in LimitChoices, pcm \in BOOLEAN,
        et \in {"discardElement", "unwrapElement", "undefined"},
        ec \in {"discardElement", "discardFirsts", "discardLasts", "undefined"},
        en \in {"discardElement", "undefined"}}

\* the element nodes of a tree that lie at least levels levels below node a
RECURSIVE ElementsBelow(_, _, _)
ElementsBelow(t, a, levels) ==
    UNION {(IF levels <= 1 /\ t[c].kind = "element" THEN {c} ELSE {})
           \cup ElementsBelow(t, c, levels - 1) : c \in Range(t[a].children)}

\* A limit or a strategy is drawn only for the fragments on which it can
\* act or be exceeded (unwrapping adds children to the parent): on the
\* others the run is that of the policy that leaves it unset.
CanAct(t, o) ==
    LET divs == {n \in NodeIds : t[n].kind = "element" /\ t[n].tagName = "div"}
        limits == o.tags["div"].limits
        handling == o.errorHandling
    IN  /\ handling.tag # "undefined" =>
              \E n \in NodeIds : t[n].kind = "element" /\ t[n].tagName = "x"
        /\ o.preserveComments => \E n \in NodeIds : t[n].kind = "comment"
        /\ \A limit \in limits.children :
              \/ \E n \in divs : Len(t[n].children) > limit
              \/ handling.tag = "unwrapElement"
        /\ \A limit \in o.topLevelLimits.children :
              \/ Len(t[Frag].children) > limit
              \/ handling.tag = "unwrapElement"
        /\ limits.nesting # {} => \E n \in divs : ElementsBelow(t, n, 2) # {}
        /\ o.topLevelLimits.nesting # {} => ElementsBelow(t, Frag, 3) # {}
        /\ handling.tagChildren # "undefined" =>
              limits.children # {} \/ o.topLevelLimits.children # {}
        /\ handling.tagNesting # "undefined" =>
              limits.nesting # {} \/ o.topLevelLimits.nesting # {}

InitWalker ==
    \E t \in WalkerTrees \cup DeepTrees :
      \E o \in WalkerOptions : CanAct(t, o) /\ tree = t /\ options = o

-----------------------------------------------------------------------------
(* One div element that carries the attribute class, alone or beside a     *)
(* second attribute, under attribute rules of the three modes and under    *)
(* the strategies of the attribute slots.                                  *)

SeqsUpTo(S, n) == UNION {[1..k -> S] : k \in 0..n}

\* at most one of maxEntries and maxLength is drawn
RuleShapes(maxEntries, maxLength, defaults) ==
    {[BaseRule EXCEPT !.maxEntries = sh[1], !.maxLength = sh[2],
                      !.defaultValue = dv, !.required = rq] :
        sh \in {<<{}, {}>>, <<{maxEntries}, {}>>, <<{}, {maxLength}>>},
        dv \in defaults, rq \in BOOLEAN}

SimpleComparators ==
    {String(Star), String(<<"a">>), Array(<<<<"a">>, <<"a", "b">>, Star>>),
     RegExp(<<<<"a">>, <<"a", "a">>>>), Boolean(TRUE), Boolean(FALSE)}

SimpleRules ==
    {[r EXCEPT !.mode = "simple", !.value = cmp] :
        r \in {x \in RuleShapes(1, 1, {{}, {<<"a">>}, {<<>>}}) : x.maxEntries = {}},
        cmp \in SimpleComparators}

SimpleValues == {<<>>, <<"a">>, <<"b">>, <<"a", "b">>, <<"a", "a">>, Star}

SetRules ==
    {[r EXCEPT !.mode = "set", !.delimiter = " ",
               !.values = Array(<<<<"a">>, <<"b">>>>)] :
        r \in RuleShapes(1, 2, {{}, {<<"b">>}, {<<>>}})}

SetEntries == {<<"a">>, <<"b">>, <<"x">>}

SetValues(n) == {Join(e, " ") : e \in SeqsUpTo(SetEntries, n)}

RecordRules ==
    {[r EXCEPT !.mode = "record", !.entrySeparator = ";",
               !.keyValueSeparator = ":",
               !.entries = <<[key |-> <<"k">>,
                             cmp |-> Array(<<<<"a">>, <<"b">>>>)],
                            [key |-> <<"j">>, cmp |-> String(Star)]>>] :
        r \in {x \in RuleShapes(2, 4, {{}, {<<"j", ":", "a">>}}) : ~x.required}}

\* well-formed pairs: valid, invalid value, unknown key
RecordEntries ==
    {<<"k", ":", "a">>, <<"k", ":", "b">>, <<"j", ":", "a">>,
     <<"k", ":", "x">>, <<"z", ":", "a">>}

\* malformed tokens: no separator, two separators, no key, no value
MalformedEntries ==
    {<<"k">>, <<"k", ":", "a", ":", "b">>, <<":", "a">>, <<"k", ":">>}

\* a pair whose key is a member of Object.prototype
InheritedEntries == {ConstructorKey \o <<":", "a">>}

RecordValues(n) ==
    {Join(e, ";") : e \in SeqsUpTo(RecordEntries, n)}
    \cup {Join(e, ";") :
            e \in SeqsUpTo(RecordEntries \cup MalformedEntries
                             \cup InheritedEntries, n - 1)}

ValuesFor(rule, n) ==
    CASE rule.mode = "simple" -> SimpleValues
      [] rule.mode = "set" -> SetValues(n)
      [] rule.mode = "record" -> RecordValues(n)

\* every slot at the strategy native to its class
NativeHandling ==
    [attribute |-> "discardAttribute",
     attributeCollectionValueTooMany |-> "dropExtra",
     attributeRecordValue |-> "dropPair",
     attributeRecordValueDuplicate |-> "keepFirst",
     attributeSetValue |-> "dropValue", attributeValue |-> "applyDefaultValue",
     attributeValueTooLong |-> "trimExcess", tag |-> "discardElement",
     tagChildren |-> "discardElement", tagNesting |-> "discardElement"]

\* the strategies a slot inherits from the broader classes, and unset
Inherited ==
    {"applyDefaultValue", "discardAttribute", "discardElement", "unwrapElement",
     "undefined"}

\* the native handling with one slot, among those that rule can reach, set
\* to another strategy of its class
HandlingsFor(rule, unruled) ==
    {NativeHandling}
    \cup {[NativeHandling EXCEPT !.attributeValue = st] :
            st \in Inherited \ {"applyDefaultValue"}}
    \cup {[NativeHandling EXCEPT !.attribute = st] :
            st \in IF unruled
                   THEN Inherited \ {"applyDefaultValue", "discardAttribute"}
                   ELSE {}}
    \cup {[NativeHandling EXCEPT !.attributeValueTooLong = st] :
            st \in IF rule.maxLength # {} THEN Inherited ELSE {}}
    \cup {[NativeHandling EXCEPT !.attributeCollectionValueTooMany = st] :
            st \in IF rule.maxEntries # {} THEN Inherited ELSE {}}
    \cup {[NativeHandling EXCEPT !.attributeSetValue = st] :
            st \in IF rule.mode = "set" THEN Inherited ELSE {}}
    \cup {[NativeHandling EXCEPT !.attributeRecordValue = st] :
            st \in IF rule.mode = "record" THEN Inherited ELSE {}}
    \cup {[NativeHandling EXCEPT !.attributeRecordValueDuplicate = st] :
            st \in IF rule.mode = "record"
                   THEN Inherited \cup {"dropDuplicates", "keepDuplicates",
                                        "keepLast"}
                   ELSE {}}

\* the rule of the second attribute id: a set whose write-back normalises
\* the value " a" to "a"
IdRule ==
    [BaseRule EXCEPT !.mode = "set",
                     !.values = Array(<<<<"a">>>>)]

IdAttr == [key |-> "id", value |-> <<" ", "a">>]

\* an attribute with no rule of its own
OnAttr == [key |-> "on", value |-> <<"a">>]

\* an attribute with no rule of its own, with a value that StarRule rejects
OnAttrRejected == [key |-> "on", value |-> <<"b">>]

\* a catch-all rule that is marked required
StarRule ==
    [BaseRule EXCEPT !.value = String(<<"a">>),
                     !.defaultValue = {<<"a">>}, !.required = TRUE]

\* the attribute layouts and their rule objects: class alone with values of
\* up to MaxEntries entries; no attribute at all; class beside id (either
\* order), beside on (with and without a "*" rule, before and after it) or
\* after constructor (with and without a "*" rule), with shorter values
Layouts(rule) ==
    {[attribs |-> <<[key |-> "class", value |-> v]>>, unruled |-> FALSE,
      rules |-> <<[key |-> "class", rule |-> rule]>>] :
        v \in ValuesFor(rule, MaxEntries)}
    \cup {[attribs |-> <<>>, unruled |-> FALSE,
           rules |-> <<[key |-> "class", rule |-> rule]>>]}
    \cup UNION {
           {[attribs |-> <<[key |-> "class", value |-> v], IdAttr>>,
             unruled |-> FALSE,
             rules |-> <<[key |-> "class", rule |-> rule],
                         [key |-> "id", rule |-> IdRule]>>],
            [attribs |-> <<IdAttr, [key |-> "class", value |-> v]>>,
             unruled |-> FALSE,
             rules |-> <<[key |-> "id", rule |-> IdRule],
                         [key |-> "class", rule |-> rule]>>],
            [attribs |-> <<OnAttr, [key |-> "class", value |-> v]>>,
             unruled |-> TRUE,
             rules |-> <<[key |-> "class", rule |-> rule]>>],
            [attribs |-> <<ConstructorAttr, [key |-> "class", value |-> v]>>,
             unruled |-> FALSE,
             rules |-> <<[key |-> "class", rule |-> rule]>>],
            [attribs |-> <<[key |-> "class", value |-> v], OnAttr>>,
             unruled |-> FALSE,
             rules |-> <<[key |-> "*", rule |-> StarRule],
                         [key |-> "class", rule |-> rule]>>],
            [attribs |-> <<OnAttr, [key |-> "class", value |-> v]>>,
             unruled |-> FALSE,
             rules |-> <<[key |-> "*", rule |-> StarRule],
                         [key |-> "class", rule |-> rule]>>],
            [attribs |-> <<OnAttrRejected, [key |-> "class", value |-> v]>>,
             unruled |-> FALSE,
             rules |-> <<[key |-> "*", rule |-> StarRule],
                         [key |-> "class", rule |-> rule]>>],
            [attribs |-> <<ConstructorAttr, [key |-> "class", value |-> v]>>,
             unruled |-> FALSE,
             rules |-> <<[key |-> "*", rule |-> StarRule],
                         [key |-> "class", rule |-> rule]>>]}
           : v \in ValuesFor(rule, MaxEntries - 1)}

AttributeTree(attribs) ==
    TreeOf(1, <<Frag>>, <<Element("div", attribs)>>)

AttributeOptions(rules, handling) ==
    [tags |-> [tagName \in {"div"} |-> [attributes |-> rules, limits |-> NoLimits]],
     topLevelLimits |-> NoLimits,
     preserveComments |-> FALSE,
     errorHandling |-> handling]

\* the example in the documentation of sanitizeTagAttributeSetValue, each
\* token written as one symbol: the sanitizer splits the value at the
\* delimiter and compares whole tokens
DocumentedSetValue ==
    <<"btn", " ", "btn-primary", " ", "btn-danger", " ", "btn-large", " ",
      "btn-disabled">>

DocumentedSetRule ==
    [BaseRule EXCEPT !.mode = "set", !.delimiter = " ", !.maxEntries = {3},
                     !.values = Array(<<<<"btn">>, <<"btn-primary">>,
                                        <<"btn-secondary">>, <<"btn-large">>>>)]

DocumentedSetHandling ==
    [NativeHandling EXCEPT !.attributeSetValue = "dropValue",
                           !.attributeCollectionValueTooMany = "dropExtra"]

InitAttributes ==
    \/ \E rule \in SimpleRules \cup SetRules \cup RecordRules :
         \E lay \in Layouts(rule) :
           \E handling \in HandlingsFor(rule, lay.unruled) :
             /\ tree = AttributeTree(lay.attribs)
             /\ options = AttributeOptions(lay.rules, handling)
    \/ /\ tree = AttributeTree(<<[key |-> "class",
                                  value |-> DocumentedSetValue]>>)
       /\ options = AttributeOptions(<<[key |-> "class",
                                        rule |-> DocumentedSetRule]>>,
                                     DocumentedSetHandling)

-----------------------------------------------------------------------------
(* An element that breaks several rules at once: a div with attributes      *)
(* (valid, invalid, without a rule, with the required id missing) that has  *)
(* two children over a limit of one, alone or before a sibling, or that     *)
(* lies two levels below a div whose nesting limit is one.                  *)

\* id is required and has a default value
RequiredIdRule ==
    [BaseRule EXCEPT !.defaultValue = {<<"a">>}, !.required = TRUE]

LimitedRules ==
    <<[key |-> "class", rule |-> [BaseRule EXCEPT !.value = String(<<"a">>)]],
      [key |-> "id", rule |-> RequiredIdRule]>>

LimitedAttribs ==
    {<<[key |-> "class", value |-> <<"b">>], [key |-> "id", value |-> <<"a">>]>>,
     <<OnAttr, [key |-> "id", value |-> <<"a">>]>>,
     <<[key |-> "class", value |-> <<"a">>]>>,
     <<[key |-> "class", value |-> <<"b">>]>>,
     <<[key |-> "class", value |-> <<"a">>], [key |-> "id", value |-> <<"a">>]>>}

LimitedKids == {Element("div", <<>>), Comment, Text}

LimitedTrees ==
    UNION {
      {TreeOf(3, <<Frag, 1, 1>>, <<Element("div", a), k1, k2>>) :
          k1 \in LimitedKids, k2 \in LimitedKids}
      \cup {TreeOf(4, <<Frag, 1, 1, Frag>>,
                   <<Element("div", a), k1, k2, Element("div", <<>>)>>) :
               k1 \in LimitedKids, k2 \in LimitedKids}
      \cup {TreeOf(4, <<Frag, 1, 2, 3>>,
                   <<Element("div", <<>>), Element("div", <<>>),
                     Element("div", a), k>>) :
               k \in LimitedKids}
      : a \in LimitedAttribs}

\* one rule for every div (a div without attributes lacks the required id),
\* under the strategies of the attribute, attributeValue, tagChildren and
\* tagNesting slots
LimitedOptions ==
    {[tags |-> [tagName \in {"div"} |->
                  [attributes |-> LimitedRules,
                   limits |-> [children |-> {1}, nesting |-> {1}]]],
      topLevelLimits |-> NoLimits,
      preserveComments |-> FALSE,
      errorHandling |-> [NoHandling EXCEPT !.tag = "discardElement",
                                           !.attribute = ea,
                                           !.attributeValue = ev,
                                           !.tagChildren = ec,
                                           !.tagNesting = en]] :
        ea \in {"discardAttribute", "discardElement", "unwrapElement",
                "undefined"},
        ev \in {"applyDefaultValue", "discardAttribute", "discardElement",
                "unwrapElement", "undefined"},
        ec \in {"discardElement", "discardFirsts", "discardLasts", "undefined"},
        en \in {"discardElement", "undefined"}}

InitLimited ==
    \E t \in LimitedTrees :
      \E o \in LimitedOptions : tree = t /\ options = o

-----------------------------------------------------------------------------
(* Fragments in which tags, attributes, attribute values, children counts  *)
(* and nesting depths violate the policy, under policies that set every    *)
(* slot of errorHandling to a strategy of its class other than throwError. *)

\* the strategies of each slot's class other than throwError
NonThrowing ==
    LET ofTag == {"discardElement", "unwrapElement"}
        ofAttribute == {"discardAttribute"} \cup ofTag
        ofValue == {"applyDefaultValue"} \cup ofAttribute
    IN  [attribute |-> ofAttribute,
         attributeCollectionValueTooMany |-> {"dropExtra"} \cup ofValue,
         attributeRecordValue |-> {"dropPair"} \cup ofValue,
         attributeRecordValueDuplicate |->
             {"dropDuplicates", "keepDuplicates", "keepFirst", "keepLast"}
             \cup ofValue,
         attributeSetValue |-> {"dropValue"} \cup ofValue,
         attributeValue |-> ofValue,
         attributeValueTooLong |-> {"trimExcess"} \cup ofValue,
         tag |-> ofTag,
         tagChildren |-> {"discardElement", "discardFirsts", "discardLasts"},
         tagNesting |-> {"discardElement"}]

GuardedHandlings ==
    {[NativeHandling EXCEPT !.tag = et, !.attribute = ea, !.attributeValue = ev,
                            !.tagChildren = ec] :
        et \in NonThrowing.tag, ea \in NonThrowing.attribute,
        ev \in NonThrowing.attributeValue \ {"discardElement"},
        ec \in NonThrowing.tagChildren}

GuardedOptions ==
    {[tags |-> [tagName \in {"div"} |->
                  [attributes |-> LimitedRules,
                   limits |-> [children |-> {1}, nesting |-> {1}]]],
      topLevelLimits |-> [children |-> {2}, nesting |-> {2}],
      preserveComments |-> FALSE,
      errorHandling |-> handling] :
        handling \in GuardedHandlings}

\* the fragments of LimitedTrees, and fragments with a tag that is not
\* allowed and with more top-level nodes than the limit
GuardedTrees ==
    LimitedTrees
    \cup UNION {
          {TreeOf(4, <<Frag, 1, Frag, Frag>>,
                  <<Element("x", <<>>), Element("div", a), Comment,
                    Element("div", <<>>)>>),
           TreeOf(4, <<Frag, 1, 2, 1>>,
                  <<Element("div", a), Element("x", <<>>), Element("div", a),
                    Text>>)}
          : a \in LimitedAttribs}

InitGuarded ==
    \E t \in GuardedTrees :
      \E o \in GuardedOptions : tree = t /\ options = o

-----------------------------------------------------------------------------
(* A second run: the string the first run returned is sanitized again under *)
(* the same policy.                                                         *)

\* the nodes of a serialized forest in document order, each with its parent
RECURSIVE Flatten(_, _, _)
Flatten(forest, parent, id) ==
    IF forest = <<>> THEN <<>>
    ELSE LET below == Flatten(forest[1].children, id, id + 1)
         IN  <<[par |-> parent,
                lab |-> [kind |-> forest[1].kind, tagName |-> forest[1].tagName,
                         attribs |-> forest[1].attribs]]>>
             \o below
             \o Flatten(Tail(forest), parent, id + 1 + Len(below))

\* parseFragment applied to a string that serialize wrote
Parse(forest) ==
    LET flat == Flatten(forest, Frag, 1)
    IN  TreeOf(Len(flat), [i \in DOMAIN flat |-> flat[i].par],
               [i \in DOMAIN flat |-> flat[i].lab])

Resanitize ==
    /\ pc = "done"
    /\ pass = 1
    /\ pass' = 2
    /\ first' = result
    /\ tree' = Parse(result)
    /\ input' = tree'
    /\ pc' = "start"
    /\ result' = <<>>
    /\ calls' = <<>>
    /\ UNCHANGED <<options, stack, thrown>>

-----------------------------------------------------------------------------
(* The specification. *)

Init ==
    /\ pc = "start"
    /\ stack = <<>>
    /\ result = <<>>
    /\ thrown = NoError
    /\ calls = <<>>
    /\ pass = 1
    /\ first = <<>>
    /\ (InitWalker \/ InitAttributes \/ InitLimited \/ InitGuarded)
    /\ input = tree

Next ==
    \/ SanitizeHtml
    \/ WalkElementNode
    \/ WalkCommentNode
    \/ WalkTextNode
    \/ Return

Spec == Init /\ [][Next]_vars

NextTwice == Next \/ Resanitize

SpecTwice == Init /\ [][NextTwice]_vars

-----------------------------------------------------------------------------
(* The exported helpers called on their own: unwrapInParent and            *)
(* handleTagChildrenError applied once to a node of a fragment, or of a    *)
(* fragment from which one node was detached before.  input keeps the tree *)
(* as it was before the call, calls names the node; the limit and the      *)
(* strategy handed to handleTagChildrenError are those of                  *)
(* topLevelLimits.children and errorHandling.tagChildren.                  *)

HandlerOptions ==
    {[tags |-> [tagName \in {"div"} |-> [attributes |-> <<>>, limits |-> NoLimits]],
      topLevelLimits |-> [children |-> {N}, nesting |-> {}],
      preserveComments |-> FALSE,
      errorHandling |-> [NoHandling EXCEPT !.tagChildren = mode]] :
        N \in 0..MaxLimit,
        mode \in {"discardElement", "discardFirsts", "discardLasts", "undefined"}}

InitHandlers ==
    /\ pc = "call"
    /\ stack = <<>>
    /\ result = <<>>
    /\ thrown = NoError
    /\ calls = <<>>
    /\ pass = 1
    /\ first = <<>>
    /\ options \in HandlerOptions
    /\ \E t \in WalkerTrees \cup DeepTrees :
          \E n \in NodeIds \cup {Null} :
              /\ n # Null => t[n].kind # "none"
              /\ tree = IF n = Null THEN t ELSE detachNode(t, n)
    /\ input = tree

CallUnwrapInParent ==
    /\ pc = "call"
    /\ \E element \in NodeIds :
          /\ tree[element].kind = "element"
          /\ tree' = unwrapInParent(tree, element)
          /\ calls' = Logged(Machine, "unwrapInParent", element, "", "").calls
    /\ pc' = "returned"
    /\ UNCHANGED <<options, stack, result, thrown, input, pass, first>>

CallHandleTagChildrenError ==
    /\ pc = "call"
    /\ \E node \in NodeIds \cup {Frag} :
          /\ tree[node].kind \in {"element", "fragment"}
          /\ LET returned(r) ==
                     /\ tree' = r.m.tree
                     /\ calls' = r.m.calls
                     /\ thrown' = r.m.thrown
                     /\ pc' = IF r.m.thrown # NoError THEN "thrown"
                              ELSE IF r.ret THEN "returned true"
                              ELSE "returned false"
             IN  returned(handleTagChildrenError(Machine, node,
                              Val(options.topLevelLimits.children),
                              options.errorHandling.tagChildren))
    /\ UNCHANGED <<options, stack, result, input, pass, first>>

NextHandlers == CallUnwrapInParent \/ CallHandleTagChildrenError

SpecHandlers == InitHandlers /\ [][NextHandlers]_vars

-----------------------------------------------------------------------------
(* matchComparator called on its own, on the comparator of a simple rule   *)
(* for the attribute class of one div element and on the value of that     *)
(* attribute.  pc tells what the call returned.                            *)

\* values that are no TagAttributeValueComparator: a number, undefined, an
\* object literal
NumberAsComparator == [t |-> "number", v |-> <<>>, b |-> FALSE]

UndefinedAsComparator == [t |-> "undefined", v |-> <<>>, b |-> FALSE]

RecordAsComparator == [t |-> "object", v |-> <<>>, b |-> FALSE]

MatchComparators ==
    SimpleComparators
    \cup {String(<<>>), String(<<"b">>), String(<<"a", "b">>),
          Array(<<>>), Array(<<Star>>), Array(<<<<>>, <<"b">>>>),
          Callback(<<<<"a">>, <<>>>>), RegExp(<<>>), ObjectAsComparator,
          NumberAsComparator, UndefinedAsComparator, RecordAsComparator}

MatchValues == SimpleValues \cup {<<"*", "*">>, <<" ">>}

InitMatch ==
    /\ pc = "call"
    /\ stack = <<>>
    /\ result = <<>>
    /\ thrown = NoError
    /\ calls = <<>>
    /\ pass = 1
    /\ first = <<>>
    /\ \E cmp \in MatchComparators :
          options = AttributeOptions(
                        <<[key |-> "class",
                           rule |-> [BaseRule EXCEPT !.value = cmp]]>>,
                        NoHandling)
    /\ \E value \in MatchValues :
          tree = AttributeTree(<<[key |-> "class", value |-> value]>>)
    /\ input = tree

CallMatchComparator ==
    /\ pc = "call"
    /\ LET rule == options.tags["div"].attributes[1].rule
           value == tree[1].attribs[1].value
       IN  pc' = IF matchComparator(rule.value, value)
                 THEN "returned true" ELSE "returned false"
    /\ calls' = Logged(Machine, "matchComparator", 1, "class", "").calls
    /\ UNCHANGED <<tree, options, stack, result, thrown, input, pass, first>>

NextMatch == CallMatchComparator

SpecMatch == InitMatch /\ [][NextMatch]_vars

-----------------------------------------------------------------------------
(* The properties. *)

\* the nodes of a serialized forest, at every depth
RECURSIVE NodesOf(_)
NodesOf(forest) ==
    UNION {{forest[i]} \cup NodesOf(forest[i].children) : i \in DOMAIN forest}

Returned == pc = "done"

\* C1: after a run that returns without throwing, every element of the
\* returned tree has a tag name that is a key of the policy's tags, under
\* every strategy of errorHandling.tag.
C1_OnlyAllowedTags ==
    Returned =>
        \A n \in NodesOf(result) :
            n.kind = "element" => n.tagName \in DOMAIN options.tags

\* C2: when a run returns without throwing, a second run on what it returned,
\* under the same policy, returns the same string.
C2_Idempotent ==
    pass = 2 /\ pc \in {"done", "thrown"} => pc = "done" /\ result = first

NoUnwrap ==
    \A slot \in DOMAIN options.errorHandling :
        options.errorHandling[slot] # "unwrapElement"

\* the rule of the policy for attribute name: its own, or the "*" one
ResolvedRule(rules, name) ==
    IF OwnRuleOf(rules, name) # {} THEN OwnRuleOf(rules, name)
    ELSE OwnRuleOf(rules, "*")

\* the tokens of a collection value: the value split on the separator, the
\* empty value holding none
Tokens(value, sep) == IF value = <<>> THEN <<>> ELSE Split(value, sep)

\* value satisfies rule: by its comparator, token by token, or pair by pair
Satisfies(rule, value) ==
    CASE rule.mode = "simple" -> matchComparator(rule.value, value)
      [] rule.mode = "set" ->
            \A token \in Range(Tokens(value, rule.delimiter)) :
                matchComparator(rule.values, token)
      [] rule.mode = "record" ->
            \A token \in Range(Tokens(value, rule.entrySeparator)) :
                LET pair == Split(token, rule.keyValueSeparator)
                IN  /\ Len(pair) = 2
                    /\ \E cmp \in OwnPairRuleOf(rule, pair[1]) :
                          matchComparator(cmp, pair[2])

\* the default value of rule was written into attribute key during the run
Injected(rule, key, value) ==
    /\ rule.defaultValue = {value}
    /\ \E i \in DOMAIN calls :
          calls[i].key = key /\ calls[i].mode = "applyDefaultValue"

\* C3: under a policy without unwrapElement, after a run that returns
\* without throwing, every attribute of every remaining element has a rule
\* (its own or the "*" one) and satisfies it, unless its value is the rule's
\* default value that applyDefaultValue injected.
C3_AttributeSoundness ==
    Returned /\ NoUnwrap =>
        \A n \in NodesOf(result) :
            n.kind = "element" /\ n.tagName \in DOMAIN options.tags =>
                \A i \in DOMAIN n.attribs :
                    LET a == n.attribs[i]
                        rs == ResolvedRule(options.tags[n.tagName].attributes,
                                           a.key)
                    IN  /\ rs # {}
                        /\ \A rule \in rs :
                              \/ Satisfies(rule, a.value)
                              \/ Injected(rule, a.key, a.value)

\* C4: after a run that returns without throwing, every remaining element
\* whose tag rule declares limits.children = N has at most N child nodes, and
\* the fragment has at most topLevelLimits.children top-level nodes.
C4_ChildrenLimits ==
    Returned =>
        /\ \A limit \in options.topLevelLimits.children : Len(result) <= limit
        /\ \A n \in NodesOf(result) :
              n.kind = "element" /\ n.tagName \in DOMAIN options.tags =>
                  \A limit \in options.tags[n.tagName].limits.children :
                      Len(n.children) <= limit

\* the ancestors of node n in tree t, nearest first, the fragment left out
RECURSIVE AncestorsOf(_, _)
AncestorsOf(t, n) ==
    IF t[n].parent \in {Null, Frag} THEN <<>>
    ELSE <<t[n].parent>> \o AncestorsOf(t, t[n].parent)

\* some ancestor of element whose tag rule declares a nesting limit has it
\* more levels below than the limit
TooDeep(element) ==
    LET ancestors == AncestorsOf(input, element)
    IN  \E i \in DOMAIN ancestors :
            /\ input[ancestors[i]].tagName \in DOMAIN options.tags
            /\ \E limit \in
                   options.tags[input[ancestors[i]].tagName].limits.nesting :
                   i > limit

Called(ev, node) ==
    \E i \in DOMAIN calls : calls[i].ev = ev /\ calls[i].node = node

\* the elements of a serialized forest that lie at least levels levels deep,
\* the forest's own nodes being one level deep
RECURSIVE ElementsFrom(_, _)
ElementsFrom(forest, levels) ==
    UNION {(IF levels <= 1 /\ forest[i].kind = "element" THEN {forest[i]} ELSE {})
           \cup ElementsFrom(forest[i].children, levels - 1) : i \in DOMAIN forest}

\* C5: under a policy without unwrapElement, for an element that reaches the
\* nesting enforcement of walkElement the tagNesting handler is invoked iff
\* some ancestor whose tag rule declares limits.nesting = N has the element
\* more than N levels below it; and with tagNesting = discardElement no
\* element of the output lies more than N levels below an element of such
\* a tag.
C5_TagNesting ==
    NoUnwrap =>
        /\ \A element \in NodeIds :
              Called("enforceNesting", element) =>
                  (Called("handleTagNestingError", element) <=> TooDeep(element))
        /\ Returned /\ options.errorHandling.tagNesting = "discardElement" =>
              \A n \in NodesOf(result) :
                  n.kind = "element" /\ n.tagName \in DOMAIN options.tags =>
                      \A limit \in options.tags[n.tagName].limits.nesting :
                          ElementsFrom(n.children, limit + 1) = {}

\* node n of tree t hangs from the fragment
RECURSIVE Attached(_, _)
Attached(t, n) ==
    /\ t[n].parent # Null
    /\ n \in Range(t[t[n].parent].children)
    /\ t[n].parent = Frag \/ Attached(t, t[n].parent)

\* node n is part of what the run returned
Survives(n) == Returned /\ result # <<>> /\ Attached(tree, n)

\* C6: after a run that returns without throwing, if preserveComments is not
\* true no comment remains at any depth of the output; if it is true, every
\* comment of the input whose ancestors all survive and whose parent had no
\* children-limit violation handled is still there, under the same parent.
C6_Comments ==
    Returned =>
        /\ ~options.preserveComments =>
              \A n \in NodesOf(result) : n.kind # "comment"
        /\ options.preserveComments =>
              \A c \in NodeIds :
                  /\ input[c].kind = "comment"
                  /\ \A a \in Range(AncestorsOf(input, c)) : Survives(a)
                  /\ ~Called("handleTagChildrenError", input[c].parent)
                  => Survives(c) /\ tree[c].parent = input[c].parent

\* the attribute table of the tag rule of element
RulesOf(element) ==
    IF input[element].tagName \in DOMAIN options.tags
    THEN options.tags[input[element].tagName].attributes
    ELSE <<>>

\* sanitizeAttributes has returned for element
Sanitized(element) ==
    thrown = NoError /\ Called("sanitizeAttributes", element)

\* a strategy that removes the element was applied to element
Removed(element) ==
    \E i \in DOMAIN calls :
        /\ calls[i].node = element
        /\ calls[i].mode \in {"discardElement", "unwrapElement"}

\* C7: whenever the strategy applied to a violation on an attribute with a
\* non-required rule or no rule is discardAttribute, in the attribute slot or
\* in the slot of a narrower class, the attribute is absent from the element
\* when sanitizeAttributes returns, and the element is kept (unless another
\* violation had it removed).
C7_DiscardAttribute ==
    \A i \in DOMAIN calls :
        LET element == calls[i].node
            key == calls[i].key
        IN  /\ calls[i].mode = "discardAttribute"
            /\ Sanitized(element)
            /\ \A rule \in ResolvedRule(RulesOf(element), key) : ~rule.required
            => /\ ~HasAttr(tree[element].attribs, key)
               /\ tree[element].parent # Null \/ Removed(element)

\* C8: when a required rule with a key other than "*" and a default value D
\* finds its attribute absent after the present attributes were processed,
\* and errorHandling.attributeValue is applyDefaultValue, sanitizeAttributes
\* returns true and the element carries the attribute with the value D.
C8_RequiredDefault ==
    \A i \in DOMAIN calls :
        LET element == calls[i].node
            key == calls[i].key
        IN  /\ calls[i].ev = "enforceRequiredAttributes"
            /\ calls[i].mode = "applyDefaultValue"
            /\ Sanitized(element)
            => \A rule \in OwnRuleOf(RulesOf(element), key) :
                   \A D \in rule.defaultValue :
                       /\ \E j \in DOMAIN calls :
                             /\ calls[j].ev = "sanitizeAttributes"
                             /\ calls[j].node = element
                             /\ calls[j].mode = "true"
                       /\ HasAttr(tree[element].attribs, key)
                       /\ GetAttr(tree[element].attribs, key) = D

\* sanitizeAttributes has returned true for element
Accepted(element) ==
    /\ thrown = NoError
    /\ \E i \in DOMAIN calls : /\ calls[i].ev = "sanitizeAttributes"
                                /\ calls[i].node = element
                                /\ calls[i].mode = "true"

\* C9: after sanitizeAttributes returns true, every attribute still present
\* whose set or record rule declares maxEntries = N holds at most N entries,
\* unless its value is the injected default value, whichever strategy of
\* attributeCollectionValueTooMany let the processing continue.
C9_MaxEntries ==
    \A element \in NodeIds :
        Accepted(element) =>
            \A i \in DOMAIN tree[element].attribs :
                LET a == tree[element].attribs[i]
                IN  \A rule \in OwnRuleOf(RulesOf(element), a.key) :
                        \A N \in rule.maxEntries :
                            rule.mode \in {"set", "record"} =>
                                \/ Len(Tokens(a.value,
                                              IF rule.mode = "set"
                                              THEN rule.delimiter
                                              ELSE rule.entrySeparator)) <= N
                                \/ Injected(rule, a.key, a.value)

\* the attributes of the input that follow attribute key on element, all of
\* them when key is not among them
After(element, key) ==
    LET keys == Keys(input[element].attribs)
    IN  {keys[j] : j \in {k \in DOMAIN keys :
                            \A at \in DOMAIN keys : keys[at] = key => at < k}}

\* C10: when the strategy applied to an attribute-level violation (an
\* attribute without rule, a value, a too long value, a set value, a record
\* value, too many entries, a duplicate key, a missing required attribute) is
\* discardElement, the element is detached, sanitizeAttributes returns false,
\* no later attribute is processed or modified, and the walker runs neither
\* the children check nor the nesting check nor the walk of the children.
C10_DiscardElement ==
    \A i \in DOMAIN calls :
        LET element == calls[i].node
            key == calls[i].key
        IN  calls[i].mode = "discardElement" /\ key # "" =>
                /\ tree[element].parent = Null
                /\ \E j \in DOMAIN calls : /\ calls[j].ev = "sanitizeAttributes"
                                            /\ calls[j].node = element
                                            /\ calls[j].mode = "false"
                /\ \A later \in After(element, key) :
                      /\ HasAttr(tree[element].attribs, later)
                      /\ GetAttr(tree[element].attribs, later)
                            = GetAttr(input[element].attribs, later)
                      /\ \A j \in DOMAIN calls :
                            calls[j].node = element => calls[j].key # later
                /\ \A j \in DOMAIN calls :
                      j > i /\ calls[j].node = element => calls[j].key \in {key, ""}
                /\ ~Called("enforceChildren", element)
                /\ ~Called("enforceNesting", element)
                /\ ~Called("walkChildren", element)

\* a duplicate key of a record value had the element discarded while the
\* attribute id was still to be processed
C10_DiscardedBeforeId ==
    \E i \in DOMAIN calls :
        /\ calls[i].ev = "handleTagAttributeRecordValueDuplicateError"
        /\ calls[i].mode = "discardElement"
        /\ "id" \in After(calls[i].node, calls[i].key)
        /\ tree[calls[i].node].parent = Null

\* the depth of node n in tree t, a top-level node having depth 1
Depth(t, n) == Len(AncestorsOf(t, n)) + 1

Finished == pc \in {"done", "thrown"}

\* every element of the input has an allowed tag, and the policy declares
\* no limit but topLevelLimits.nesting
OnlyTopLevelNesting ==
    /\ \A n \in NodeIds :
          input[n].kind = "element" => input[n].tagName \in DOMAIN options.tags
    /\ options.topLevelLimits.children = {}
    /\ \A tagName \in DOMAIN options.tags :
          options.tags[tagName].limits = NoLimits

\* C11: under a policy in which every tag is allowed and whose only limit is
\* topLevelLimits.nesting = N (N >= 1), when the run has ended the tagNesting
\* handler was invoked on an element iff its depth is greater than N + 1; and
\* with tagNesting = discardElement the output holds no element deeper than
\* N + 1 while every element of depth at most N + 1 is kept.
C11_TopLevelNesting ==
    \A N \in options.topLevelLimits.nesting :
        N >= 1 /\ OnlyTopLevelNesting /\ Finished =>
            /\ \A e \in NodeIds :
                  input[e].kind = "element" =>
                      (Called("handleTagNestingError", e) <=> Depth(input, e) > N + 1)
            /\ Returned /\ options.errorHandling.tagNesting = "discardElement" =>
                  /\ ElementsFrom(result, N + 2) = {}
                  /\ \A e \in NodeIds :
                        input[e].kind = "element" /\ Depth(input, e) <= N + 1
                            => Survives(e)

\* the step logs event ev on node
Calls(ev, node) ==
    \E i \in DOMAIN calls' :
        i > Len(calls) /\ calls'[i].ev = ev /\ calls'[i].node = node

\* C12: whenever the children check runs on an element whose tag rule
\* declares limits.children = N, or on the fragment under
\* topLevelLimits.children = N, for any N >= 0, and the node has more than N
\* children at that time, the tagChildren handler is invoked on it.
C12_ChildrenLimitFromZero ==
    [][/\ \A e \in NodeIds :
             Calls("enforceChildren", e) =>
                 \A rule \in TagRuleOf(options, tree[e].tagName) :
                     \A N \in rule.limits.children :
                         Len(tree[e].children) > N
                             => Calls("handleTagChildrenError", e)
       /\ pc = "start" /\ pc' # "start" =>
             \A N \in options.topLevelLimits.children :
                 Len(tree[Frag].children) > N
                     => Calls("handleTagChildrenError", Frag)]_vars

\* the parent and sibling links of the children of node p agree with its
\* child list
LinksConsistent(t, p) ==
    LET kids == t[p].children
    IN  \A i \in DOMAIN kids :
            /\ t[kids[i]].parent = p
            /\ t[kids[i]].prev = IF i = 1 THEN Null ELSE kids[i - 1]
            /\ t[kids[i]].next = IF i = Len(kids) THEN Null ELSE kids[i + 1]

\* node n is in no child list but possibly that of node except
InNoChildList(t, n, except) ==
    \A p \in 1..Frag : p # except => n \notin Range(t[p].children)

\* C13: unwrapInParent on an element E with parent P and children c1..cn
\* (n >= 1) leaves P's child list equal to the siblings before E, then
\* c1..cn in order, then the siblings after E; E is out of the tree, the
\* parent and sibling links of P's children are consistent, and every other
\* node, the descendants of the ci included, is unchanged.  With no child
\* or no parent, E is detached and nothing else changes.
C13_Unwrap ==
    pc = "returned" =>
        LET E == calls[1].node
            P == input[E].parent
            kids == input[E].children
            at == IndexOf(input[P].children, E)
            before == SubSeq(input[P].children, 1, at - 1)
            after == SubSeq(input[P].children, at + 1, Len(input[P].children))
        IN  IF P = Null THEN tree = input
            ELSE /\ tree[P].children =
                       IF kids = <<>> THEN before \o after
                       ELSE before \o kids \o after
                 /\ LinksConsistent(tree, P)
                 /\ tree[E].parent = Null
                 /\ InNoChildList(tree, E, Null)
                 /\ \A n \in 1..Frag :
                       /\ tree[n].kind = input[n].kind
                       /\ tree[n].tagName = input[n].tagName
                       /\ tree[n].attribs = input[n].attribs
                       /\ n # P => tree[n].children = input[n].children
                       /\ n \notin {P} \cup Range(input[P].children)
                                    \cup Range(kids) =>
                             tree[n] = input[n]

\* an element with a sibling on either side and a child was unwrapped
C13_UnwrappedInTheMiddle ==
    /\ pc = "returned"
    /\ input[calls[1].node].prev # Null
    /\ input[calls[1].node].next # Null
    /\ input[calls[1].node].children # <<>>
    /\ input[calls[1].node].parent # Null

\* C14: when handleTagChildrenError runs on a node with child list c1..cn
\* and a limit N < n, discardFirsts leaves exactly the last N children and
\* discardLasts exactly the first N, in their original order, and returns
\* true; the node is otherwise unchanged, and so is every other node (the
\* children keep their own fields and descendants, and the links of those
\* kept agree with the new child list).
C14_ChildrenStrategies ==
    pc \in {"returned true", "returned false", "thrown"} =>
        LET node == calls[1].node
            mode == calls[1].mode
            N == Val(options.topLevelLimits.children)
            kids == input[node].children
            n == Len(kids)
        IN  N < n /\ mode \in {"discardFirsts", "discardLasts"} =>
                /\ pc = "returned true"
                /\ tree[node].children =
                      IF mode = "discardFirsts" THEN SubSeq(kids, n - N + 1, n)
                      ELSE SubSeq(kids, 1, N)
                /\ [tree[node] EXCEPT !.children = kids] = input[node]
                /\ LinksConsistent(tree, node)
                /\ \A x \in 1..Frag :
                      /\ x \notin {node} \cup Range(kids) => tree[x] = input[x]
                      /\ x \in Range(kids) =>
                            /\ tree[x].kind = input[x].kind
                            /\ tree[x].tagName = input[x].tagName
                            /\ tree[x].attribs = input[x].attribs
                            /\ tree[x].children = input[x].children

\* discardFirsts removed two children or more and kept one or more
C14_DiscardedTwoFirsts ==
    /\ pc = "returned true"
    /\ calls[1].mode = "discardFirsts"
    /\ Val(options.topLevelLimits.children) >= 1
    /\ Len(input[calls[1].node].children)
          >= Val(options.topLevelLimits.children) + 2
    /\ Len(tree[calls[1].node].children) = Val(options.topLevelLimits.children)

\* C15: when topLevelLimits.children is set, the fragment has more top-level
\* nodes than the limit and errorHandling.tagChildren = discardElement, the
\* run returns the empty string, nothing is thrown, no node is walked and no
\* handler but tagChildren on the fragment is invoked.
C15_TopLevelDiscardElement ==
    \A N \in options.topLevelLimits.children :
        /\ pc # "start"
        /\ Len(input[Frag].children) > N
        /\ options.errorHandling.tagChildren = "discardElement"
        => /\ pc = "done"
           /\ result = <<>>
           /\ thrown = NoError
           /\ stack = <<>>
           /\ Len(calls) = 1
           /\ calls[1].ev = "handleTagChildrenError"
           /\ calls[1].node = Frag

\* the events of the log on node and attribute key, in order
CallsOn(node, key) ==
    LET on(c) == c.node = node /\ c.key = key
    IN  SelectSeq(calls, on)

IsPrefix(s, t) == Len(s) <= Len(t) /\ SubSeq(t, 1, Len(s)) = s

\* the events on attribute a that validating it against rule logs
ValidationOf(element, a, rule) ==
    LET on(c) == c.key = a.key
    IN  SelectSeq(
            sanitizeTagAttributeValue(
                [tree |-> input, thrown |-> NoError, calls |-> <<>>],
                a, element, rule, options.errorHandling).m.calls,
            on)

\* C16: the first attribute of an element is validated against the rule
\* registered under its own name when there is one, and against the "*"
\* rule when there is none; and no handler is ever invoked for an attribute
\* named "*", nor is such an attribute injected, even when the "*" rule is
\* required.
C16_StarFallback ==
    /\ \A element \in NodeIds :
          Called("sanitizeAttributes", element) /\ input[element].attribs # <<>> =>
              LET a == input[element].attribs[1]
              IN  \A rule \in ResolvedRule(RulesOf(element), a.key) :
                      IsPrefix(ValidationOf(element, a, rule),
                               CallsOn(element, a.key))
    /\ \A i \in DOMAIN calls : calls[i].key # "*"
    /\ \A n \in NodeIds : ~HasAttr(tree[n].attribs, "*")

\* attribute key of element was found missing by enforceRequiredAttributes
Missing(element, key) ==
    \E i \in DOMAIN calls : /\ calls[i].ev = "enforceRequiredAttributes"
                             /\ calls[i].node = element
                             /\ calls[i].key = key

\* the members of sequence s that are in set S, in the order of s
Only(s, S) ==
    LET in(x) == x \in S
    IN  SelectSeq(s, in)

\* C17: after sanitizeAttributes returns true for an element, the attributes
\* of the input that are still present (and were not injected for a missing
\* required rule) stand in the same relative order as in the input, under
\* every combination of strategies, and the injected ones come after them.
C17_AttributeOrder ==
    \A element \in NodeIds :
        Accepted(element) =>
            LET keysIn == Keys(input[element].attribs)
                keysOut == Keys(tree[element].attribs)
                kept == {k \in Range(keysIn) \cap Range(keysOut) :
                           ~Missing(element, k)}
            IN  /\ Only(keysOut, kept) = Only(keysIn, kept)
                /\ \A i, j \in DOMAIN keysOut :
                      i < j /\ keysOut[j] \in kept => keysOut[i] \in kept

\* the attributes of the input of element whose own rule has the given mode,
\* each with that rule
RuledAttributes(element, mode) ==
    UNION {{[a |-> input[element].attribs[i], rule |-> rule] :
               rule \in {r \in OwnRuleOf(RulesOf(element),
                                         input[element].attribs[i].key) :
                           r.mode = mode}} :
           i \in DOMAIN input[element].attribs}

\* the pairs of a record value
PairsOf(rule, value) ==
    parseRecord(value, rule.entrySeparator, rule.keyValueSeparator)

\* the pairs that the loop of the record sanitizer is handed under trimExcess
\* and dropExtra: those of the value cut to maxLength, cut to maxEntries
LoopPairs(rule, value) ==
    LET trimmed == IF Truthy(rule.maxLength) /\ Len(value) > Val(rule.maxLength)
                   THEN Slice(value, Val(rule.maxLength)) ELSE value
        pairs == PairsOf(rule, trimmed)
    IN  IF Truthy(rule.maxEntries) /\ Len(pairs) > Val(rule.maxEntries)
        THEN Slice(pairs, Val(rule.maxEntries)) ELSE pairs

\* the value and its pairs get to the loop of the record sanitizer: the value
\* is within maxLength or trimExcess cuts it, and the pairs are within
\* maxEntries or dropExtra cuts them
ReachesLoop(rule, value) ==
    /\ Truthy(rule.maxLength) /\ Len(value) > Val(rule.maxLength)
          => options.errorHandling.attributeValueTooLong = "trimExcess"
    /\ Truthy(rule.maxEntries)
          /\ Len(PairsOf(rule, value)) > Val(rule.maxEntries)
          => options.errorHandling.attributeCollectionValueTooMany = "dropExtra"

\* the pair matches the matcher that rule declares for its key
OwnMatch(rule, pair) ==
    \E cmp \in OwnPairRuleOf(rule, pair.key) : matchComparator(cmp, pair.val)

\* the pairs of P whose key occurs once in P and that match
OnceAndMatching(rule, P) ==
    {P[i] : i \in {k \in DOMAIN P : /\ OwnMatch(rule, P[k])
                                    /\ \A j \in DOMAIN P :
                                          P[j].key = P[k].key => j = k}}

DropsDuplicates ==
    /\ options.errorHandling.attributeRecordValueDuplicate = "dropDuplicates"
    /\ options.errorHandling.attributeRecordValue = "dropPair"

KeepsFirst ==
    /\ options.errorHandling.attributeRecordValueDuplicate = "keepFirst"
    /\ options.errorHandling.attributeRecordValue = "dropPair"

\* no key is in two pairs of the record
KeysOnce(record) ==
    \A o, q \in DOMAIN record : record[o].key = record[q].key => o = q

RECURSIVE MatchingTokens(_, _)
MatchingTokens(cmp, tokens) ==
    IF tokens = <<>> THEN <<>>
    ELSE (IF matchComparator(cmp, Head(tokens)) THEN <<Head(tokens)>> ELSE <<>>)
         \o MatchingTokens(cmp, Tail(tokens))

\* C20: under dropValue and dropExtra, after sanitizeAttributes returns true a
\* set attribute whose value is within maxLength holds the delimiter-join of
\* the distinct tokens of its input value that match rule.values, in
\* first-occurrence order, cut to the first maxEntries of them; for the
\* documented example that is "btn btn-primary btn-large".
C20_FirstValidTokens ==
    \A element \in NodeIds :
        /\ Accepted(element)
        /\ options.errorHandling.attributeSetValue = "dropValue"
        /\ options.errorHandling.attributeCollectionValueTooMany = "dropExtra"
        => \A ra \in {r \in RuledAttributes(element, "set") :
                         ~(/\ Truthy(r.rule.maxLength)
                           /\ Len(r.a.value) > Val(r.rule.maxLength))} :
              LET valid == MatchingTokens(ra.rule.values,
                               parseSet(ra.a.value, ra.rule.delimiter))
                  kept == IF Truthy(ra.rule.maxEntries)
                          THEN Slice(valid, Val(ra.rule.maxEntries)) ELSE valid
              IN  /\ HasAttr(tree[element].attribs, ra.a.key)
                  /\ GetAttr(tree[element].attribs, ra.a.key)
                        = Join(kept, ra.rule.delimiter)

\* the entries of the log that are calls of the error handlers
HandlerEvents ==
    {"handleTagError", "handleTagAttributeError", "handleTagAttributeValueError",
     "handleTagAttributeRecordValueError", "handleTagAttributeSetValueError",
     "handleTagAttributeValueTooLongError", "handleTagChildrenError",
     "handleTagNestingError", "handleTagAttributeCollectionValueTooManyError",
     "handleTagAttributeRecordValueDuplicateError"}

HandlerCalls == {i \in DOMAIN calls : calls[i].ev \in HandlerEvents}

\* the index of the last handler invoked
LastHandler == CHOOSE i \in HandlerCalls : \A j \in HandlerCalls : j <= i

LastCall == calls[LastHandler]

\* the run threw out of the attribute chain: handleTagAttributeError handed
\* the violation to handleTagError
ThrewForAttribute ==
    /\ pc = "thrown"
    /\ LastCall.ev = "handleTagError"
    /\ LastHandler >= 2
    /\ calls[LastHandler - 1].ev = "handleTagAttributeError"

\* C21: the message of every failure thrown by a run names the tag of the
\* violating element, or Root for the fragment, and, when the violation is
\* about an attribute, the attribute too.
C21_MessagesNameTheTag ==
    pc = "thrown" =>
        /\ IF LastCall.node = Frag
           THEN thrown.tpl \in
                  {"Root has exceeded the maximum allowed number of children",
                   "Root has exceeded the maximum nesting level"}
           ELSE tree[LastCall.node].tagName \in thrown.tags
        /\ ThrewForAttribute =>
              calls[LastHandler - 1].key \in thrown.attrs

\* the place of entry i of the log in the order of the checks on its node:
\* 0 walkNode and its top-level nesting check, 1 tag admission, 2 attributes,
\* 3 children count, 4 ancestor-tag nesting, 5 the walk of the children
Rank(i) ==
    LET ev == calls[i].ev
        follows(before) ==
            /\ i > 1
            /\ calls[i - 1].ev = before
            /\ calls[i - 1].node = calls[i].node
    IN  CASE ev = "walkNode" -> 0
          [] ev = "handleTagNestingError" ->
               IF follows("enforceNesting") THEN 4 ELSE 0
          [] ev = "handleTagError" ->
               IF follows("handleTagAttributeError") THEN 2 ELSE 1
          [] ev \in {"enforceChildren", "handleTagChildrenError"} -> 3
          [] ev = "enforceNesting" -> 4
          [] ev = "walkChildren" -> 5
          [] OTHER -> 2

\* entry i is a handler that removed its element or threw
Terminal(i) ==
    \/ calls[i].ev \in {"handleTagError", "handleTagNestingError"}
    \/ /\ calls[i].ev = "handleTagChildrenError"
       /\ calls[i].mode \notin {"discardFirsts", "discardLasts"}

\* entry j is within the enforcement of the required attributes of its node:
\* it is in the chain of the enforcement of its own key
InRequired(j) ==
    \E q \in 1..j :
        /\ calls[q].ev = "enforceRequiredAttributes"
        /\ calls[q].node = calls[j].node
        /\ calls[q].key = calls[j].key
        /\ \A x \in q..j : calls[x].node = calls[j].node
                             /\ calls[x].key \in {calls[j].key, ""}

\* the index of an attribute name in a sequence of entries [key, ...]
KeyIndex(entries, key) ==
    CHOOSE x \in 0..Len(entries) :
        IF \E y \in DOMAIN entries : entries[y].key = key
        THEN x > 0 /\ entries[x].key = key
        ELSE x = 0

\* C22: the entries of the log for one element are in the order tag
\* admission, attributes (the present ones in insertion order, then the
\* required ones in the order of the rules), children count, ancestor-tag
\* nesting, walk of the children; after a handler that removes the element or
\* throws there is no further check on it; and no child is walked before the
\* walk of the children starts, that is after the children were counted.
C22_OrderOfDetection ==
    \A i, j \in DOMAIN calls :
        LET E == calls[i].node
        IN  /\ i < j /\ calls[j].node = E /\ E # Frag =>
                /\ Rank(i) <= Rank(j)
                /\ Terminal(i) => calls[j].ev = "sanitizeAttributes"
                /\ calls[i].key # "" /\ calls[j].key # "" =>
                      IF InRequired(i)
                      THEN /\ InRequired(j)
                           /\ KeyIndex(RulesOf(E), calls[i].key)
                                 <= KeyIndex(RulesOf(E), calls[j].key)
                      ELSE InRequired(j)
                           \/ KeyIndex(input[E].attribs, calls[i].key)
                                 <= KeyIndex(input[E].attribs, calls[j].key)
            /\ calls[j].node # Frag /\ input[calls[j].node].parent = E /\ E # Frag
                /\ Rank(i) <= 4
                => i < j

\* an element broke an attribute rule and the children limit: the attribute
\* was discarded first, the last children next, and then a child was walked
C22_AttributeThenChildren ==
    \E i, j, k \in DOMAIN calls :
        /\ i < j /\ j < k
        /\ calls[i].ev = "handleTagAttributeError"
        /\ calls[i].key = "on"
        /\ calls[i].mode = "discardAttribute"
        /\ calls[j].ev = "handleTagChildrenError"
        /\ calls[j].mode = "discardLasts"
        /\ calls[j].node = calls[i].node
        /\ calls[k].ev = "walkNode"
        /\ input[calls[k].node].parent = calls[i].node

\* the children of P when the walk of its children began: those of the input
\* (a node whose children are walked was not reshaped before), less the ones
\* that the children handler of P cut
KidsAtWalk(P) ==
    LET kids == input[P].children
        limit == IF P = Frag THEN options.topLevelLimits.children
                 ELSE UNION {r.limits.children :
                               r \in TagRuleOf(options, input[P].tagName)}
        cut(mode) == \E i \in DOMAIN calls :
                        /\ calls[i].ev = "handleTagChildrenError"
                        /\ calls[i].node = P
                        /\ calls[i].mode = mode
    IN  IF cut("discardLasts") THEN Slice(kids, Val(limit))
        ELSE IF cut("discardFirsts")
        THEN SubSeq(kids, Max(1, Len(kids) - Val(limit) + 1), Len(kids))
        ELSE kids

\* the children of P in the input that were walked, in the order of the walks
WalkOrder(P) ==
    LET walk(c) == c.ev = "walkNode" /\ c.node \in Range(input[P].children)
        walks == SelectSeq(calls, walk)
    IN  [i \in DOMAIN walks |-> walks[i].node]

\* a handler discarded or unwrapped node C in the walk of C
RemovedInItsWalk(C) ==
    \E i \in DOMAIN calls :
        /\ calls[i].node = C
        /\ Terminal(i)
        /\ calls[i].mode \in {"discardElement", "unwrapElement"}

\* C23: in a run that returns, when a handler discarded or unwrapped a child
\* of P (an element or the fragment) in the walk of that child, the children
\* that P had when its loop began were each walked exactly once, in their
\* order: the removal neither skips a following sibling nor repeats a
\* preceding one, at every level.
C23_SiblingsContinue ==
    pc = "done" =>
        \A P \in NodeIds \cup {Frag} :
            (\E C \in Range(KidsAtWalk(P)) : RemovedInItsWalk(C))
            => WalkOrder(P) = KidsAtWalk(P)

\* a child that had children was unwrapped in its walk, and the sibling after
\* it was walked
C23_WalkedPastTheUnwrapped ==
    /\ pc = "done"
    /\ \E P \in NodeIds \cup {Frag} :
          \E i \in DOMAIN KidsAtWalk(P) :
              /\ i < Len(KidsAtWalk(P))
              /\ input[KidsAtWalk(P)[i]].children # <<>>
              /\ \E x \in DOMAIN calls :
                    /\ calls[x].node = KidsAtWalk(P)[i]
                    /\ calls[x].ev = "handleTagError"
                    /\ calls[x].mode = "unwrapElement"
              /\ WalkOrder(P) = KidsAtWalk(P)

\* the descendants of node a in tree t
RECURSIVE Descendants(_, _)
Descendants(t, a) ==
    UNION {{c} \cup Descendants(t, c) : c \in Range(t[a].children)}

\* the elements that the handlers have detached or unwrapped so far, and the
\* nodes below them (the subtree of an element is as the parser built it
\* until the element is walked, and a child cut from it is detached too)
Gone ==
    LET detached == {n \in NodeIds : /\ input[n].kind = "element"
                                     /\ input[n].parent # Null
                                     /\ tree[n].parent = Null}
    IN  detached \cup UNION {Descendants(input, n) : n \in detached}

\* entry i of the log is the handler that detached or unwrapped its node
Removal(i) ==
    \/ Terminal(i) /\ calls[i].mode \in {"discardElement", "unwrapElement"}

\* C24: once a handler has detached or unwrapped an element, no handler is
\* invoked afterwards for it or for a node below it, in the same call or in a
\* later one, and no later step changes the attribute map or the child list
\* of any of them.
C24_NoWorkAfterDetach ==
    [][/\ \A i, j \in DOMAIN calls' :
             /\ i < j
             /\ Removal(i)'
             /\ calls'[i].node # Frag
             /\ calls'[j].node \in {calls'[i].node}
                                   \cup Descendants(input, calls'[i].node)
             => calls'[j].ev \notin HandlerEvents \cup {"walkNode"}
       /\ \A n \in Gone :
             /\ tree'[n].attribs = tree[n].attribs
             /\ tree'[n].children = tree[n].children
             /\ \A j \in DOMAIN calls' :
                   j > Len(calls) /\ calls'[j].node = n
                   => calls'[j].ev \notin HandlerEvents \cup {"walkNode"}
      ]_vars

\* an element with children was detached or unwrapped by a handler, a later
\* sibling was walked afterwards, and the nodes below the element are as they
\* were
C24_LeftAsItWas ==
    \E i, j \in DOMAIN calls :
        /\ i < j
        /\ Removal(i)
        /\ calls[i].node # Frag
        /\ input[calls[i].node].children # <<>>
        /\ calls[j].ev = "walkNode"
        /\ \A n \in Descendants(input, calls[i].node) :
              /\ tree[n].attribs = input[n].attribs
              /\ tree[n].children = input[n].children

\* the handlers of the attribute classes, with the slot of errorHandling that
\* each is called with, the strategies it applies itself, and the handler it
\* hands every other strategy to
AttributeHandlers ==
    {"handleTagAttributeValueTooLongError", "handleTagAttributeSetValueError",
     "handleTagAttributeRecordValueError",
     "handleTagAttributeCollectionValueTooManyError",
     "handleTagAttributeRecordValueDuplicateError",
     "handleTagAttributeValueError", "handleTagAttributeError"}

SlotOf(ev) ==
    CASE ev = "handleTagAttributeValueTooLongError" -> "attributeValueTooLong"
      [] ev = "handleTagAttributeSetValueError" -> "attributeSetValue"
      [] ev = "handleTagAttributeRecordValueError" -> "attributeRecordValue"
      [] ev = "handleTagAttributeCollectionValueTooManyError" ->
           "attributeCollectionValueTooMany"
      [] ev = "handleTagAttributeRecordValueDuplicateError" ->
           "attributeRecordValueDuplicate"
      [] ev = "handleTagAttributeValueError" -> "attributeValue"
      [] ev = "handleTagAttributeError" -> "attribute"
      [] OTHER -> "tag"

OwnStrategies(ev) ==
    CASE ev = "handleTagAttributeValueTooLongError" -> {"trimExcess"}
      [] ev = "handleTagAttributeSetValueError" -> {"dropValue"}
      [] ev = "handleTagAttributeRecordValueError" -> {"dropPair"}
      [] ev = "handleTagAttributeCollectionValueTooManyError" -> {"dropExtra"}
      [] ev = "handleTagAttributeRecordValueDuplicateError" ->
           {"dropDuplicates", "keepDuplicates", "keepFirst", "keepLast"}
      [] ev = "handleTagAttributeValueError" -> {"applyDefaultValue"}
      [] ev = "handleTagAttributeError" -> {"discardAttribute"}
      [] OTHER -> {}

Broader(ev) ==
    CASE ev = "handleTagAttributeError" -> "handleTagError"
      [] ev = "handleTagAttributeValueError" -> "handleTagAttributeError"
      [] OTHER -> "handleTagAttributeValueError"

\* entry i of the log is a handler called by the handler of entry i - 1, which
\* did not apply the strategy itself
Delegated(i) ==
    /\ i > 1
    /\ calls[i - 1].ev \in AttributeHandlers \cup {"enforceRequiredAttributes"}
    /\ calls[i - 1].node = calls[i].node
    /\ calls[i].ev = Broader(calls[i - 1].ev)
    /\ calls[i - 1].mode \notin OwnStrategies(calls[i - 1].ev)

RecordTokens(rule, value) ==
    IF Trim(value) = <<>> THEN <<>>
    ELSE TrimAndFilter(Split(Trim(value), rule.entrySeparator))

\* the token splits on the separator into exactly two parts that are both
\* non-empty after trimming
WellFormed(rule, token) ==
    LET parts == Split(token, rule.keyValueSeparator)
    IN  Len(parts) = 2 /\ Trim(parts[1]) # <<>> /\ Trim(parts[2]) # <<>>

\* the value without its malformed tokens
WithoutMalformed(rule, value) ==
    LET ok(token) == WellFormed(rule, token)
    IN  Join(SelectSeq(RecordTokens(rule, value), ok), rule.entrySeparator)

\* what the validation of attribute a of element comes to on tree t: the
\* handlers it invokes, whether it proceeds, whether it throws, and the
\* attributes after it
OutcomeOn(t, element, a, rule) ==
    LET on(c) == c.key = a.key
        outcome(r) ==
            [calls |-> SelectSeq(r.m.calls, on),
             ret |-> r.ret,
             threw |-> r.m.thrown # NoError,
             attribs |-> r.m.tree[element].attribs]
    IN  outcome(sanitizeTagAttributeValue(
                    [tree |-> t, thrown |-> NoError, calls |-> <<>>],
                    a, element, rule, options.errorHandling))

OutcomeOf(element, a, rule) == OutcomeOn(input, element, a, rule)

Overlong(element) ==
    UNION {{r \in RuledAttributes(element, mode) :
              /\ r.a = input[element].attribs[1]
              /\ Truthy(r.rule.maxLength)
              /\ Len(r.a.value) > Val(r.rule.maxLength)} :
           mode \in {"simple", "set", "record"}}

\* the first L code units of the value
Truncated(ra) == SubSeq(ra.a.value, 1, Val(ra.rule.maxLength))

\* C27: under attributeValueTooLong = trimExcess an overlong value is cut to
\* its first maxLength code units and the run then invokes the handlers,
\* proceeds or throws, and leaves the attribute as the validation of the cut
\* value does; once sanitizeAttributes has returned true the attribute, if
\* present and not the rule's defaultValue, is no longer than maxLength.
C27_TrimExcess ==
    \A element \in NodeIds :
        (/\ Called("sanitizeAttributes", element)
         /\ options.errorHandling.attributeValueTooLong = "trimExcess") =>
            \A ra \in Overlong(element) :
                LET cut == OutcomeOn(
                               [input EXCEPT ![element].attribs =
                                    SetAttr(@, ra.a.key, Truncated(ra))],
                               element,
                               [key |-> ra.a.key, value |-> Truncated(ra)],
                               ra.rule)
                    mine == CallsOn(element, ra.a.key)
                    now == GetAttr(tree[element].attribs, ra.a.key)
                IN  /\ mine # <<>>
                    /\ mine[1].ev = "handleTagAttributeValueTooLongError"
                    /\ IsPrefix(cut.calls, Tail(mine))
                    /\ cut.threw <=> (pc = "thrown"
                                        /\ LastCall.node = element
                                        /\ Len(Tail(mine)) = Len(cut.calls))
                    /\ HasAttr(tree[element].attribs, ra.a.key)
                          <=> HasAttr(cut.attribs, ra.a.key)
                    /\ HasAttr(tree[element].attribs, ra.a.key) =>
                          now = GetAttr(cut.attribs, ra.a.key)
                    /\ (/\ Accepted(element)
                        /\ HasAttr(tree[element].attribs, ra.a.key)
                        /\ now \notin ra.rule.defaultValue) =>
                          Len(now) <= Val(ra.rule.maxLength)

\* an overlong set value was cut in the middle, the cut value was validated
\* and the attribute was left shorter than the input value
C27_CutThenValidated ==
    \E element \in NodeIds :
        /\ Accepted(element)
        /\ options.errorHandling.attributeValueTooLong = "trimExcess"
        /\ \E ra \in Overlong(element) :
              /\ ra.rule.mode = "set"
              /\ ra.a.value = <<"a", " ", "b">>
              /\ HasAttr(tree[element].attribs, ra.a.key)
              /\ GetAttr(tree[element].attribs, ra.a.key) = <<"a">>

\* the comparator and the value matchComparator was called on
MatchedComparator == options.tags["div"].attributes[1].rule.value

MatchedValue == input[1].attribs[1].value

RECURSIVE ElementAncestors(_, _)
ElementAncestors(t, n) ==
    LET p == t[n].parent
    IN  IF p = Null \/ p = Frag THEN <<>>
        ELSE ElementAncestors(t, p)
               \o (IF t[p].kind = "element" THEN <<p>> ELSE <<>>)

\* walkNode is about to be called on a node
AboutToWalk == pc = "walk" /\ stack # <<>> /\ Top.child # Null

\* the state handed to walkNode counts and names the element ancestors of the
\* node
StateOfAncestors ==
    AboutToWalk =>
        LET anc == ElementAncestors(tree, Top.child)
            state == Top.state
        IN  /\ state.rootNesting = Len(anc)
            /\ Len(state.tagNesting) = Len(anc)
            /\ \A i \in DOMAIN anc :
                  /\ state.tagNesting[i].key = tree[anc[i]].tagName
                  /\ state.tagNesting[i].value = Len(anc) - i

\* a step of the walk leaves the state of every loop that is still running
\* as it was
StateKept ==
    \A i \in DOMAIN stack \cap DOMAIN stack' :
        /\ stack'[i].owner = stack[i].owner
        /\ stack'[i].state = stack[i].state

\* C29: whenever walkNode is called, state.rootNesting and the length of
\* state.tagNesting are the number of element ancestors of the node, and the
\* i-th frame from the outside carries the tag name of the i-th ancestor and
\* the number of ancestors below it; walking a child leaves the state of its
\* parent's loop unchanged, so that the next child is walked with the same
\* state.
C29_WalkerState == []StateOfAncestors /\ [][StateKept]_vars

\* walkNode is about to be called on the second child of an element three
\* levels deep, after the walk of the first child
C29_ThreeDeepSecondChild ==
    /\ AboutToWalk
    /\ Len(ElementAncestors(tree, Top.child)) = 2
    /\ Top.state.tagNesting[1].value = 1
    /\ tree[Top.child].prev # Null
    /\ Called("walkNode", tree[Top.child].prev)

\* every slot of errorHandling is set to a strategy of its class other than
\* throwError
AllNonThrowing ==
    \A slot \in DOMAIN options.errorHandling :
        options.errorHandling[slot] \in NonThrowing[slot]

\* the calls of walkNode on node n
WalksOf(n) ==
    {i \in DOMAIN calls : calls[i].ev = "walkNode" /\ calls[i].node = n}

=============================================================================
